---- MODULE Spec2Model ----
(***************************************************************************)
(* Verification model of the anomaly-tracer dashboard.                     *)
(*                                                                         *)
(*  Part I   strings: the text primitives the code relies on               *)
(*  Part II  DatabricksQueryService: lazy connection, _reconnect,          *)
(*           _execute_with_retry, the four public operations and the       *)
(*           run_query handler (specification Spec)                        *)
(*  Part III the Stage 1 / Stage 2 linkage query (specification SpecLink)  *)
(***************************************************************************)
EXTENDS Integers, Sequences, FiniteSets, TLC

(***************************************************************************)
(* Part I - strings.  A string is a TLA+ string; a character is a string   *)
(* of length one.                                                          *)
(***************************************************************************)

Char(s, i) == SubSeq(s, i, i)

UpperCase == <<"A", "B", "C", "D", "E", "F", "G", "H", "I", "J", "K", "L", "M",
               "N", "O", "P", "Q", "R", "S", "T", "U", "V", "W", "X", "Y", "Z">>

LowerCase == <<"a", "b", "c", "d", "e", "f", "g", "h", "i", "j", "k", "l", "m",
               "n", "o", "p", "q", "r", "s", "t", "u", "v", "w", "x", "y", "z">>

\* str.lower() on one character
LowerChar(c) ==
    IF \E k \in 1..26 : UpperCase[k] = c
    THEN LowerCase[CHOOSE k \in 1..26 : UpperCase[k] = c]
    ELSE c

RECURSIVE LowerRange(_, _, _)
LowerRange(s, lo, hi) ==
    IF lo > hi THEN ""
    ELSE IF lo = hi THEN LowerChar(Char(s, lo))
    ELSE LET mid == (lo + hi) \div 2
         IN  LowerRange(s, lo, mid) \o LowerRange(s, mid + 1, hi)

\* str.lower()
Lower(s) == LowerRange(s, 1, Len(s))

\* Python's  kw in s  (substring test)
Contains(s, kw) ==
    \E i \in 1..(Len(s) - Len(kw) + 1) : SubSeq(s, i, i + Len(kw) - 1) = kw

(***************************************************************************)
(* Part II - DatabricksQueryService                                        *)
(***************************************************************************)

\* Bounds of the exploration
MaxCalls == 2

\* default of the max_retries parameter of _execute_with_retry
max_retries == 2

VARIABLES
    http_path,      \* settings.databricks_http_path or os.getenv(...): "" when absent
    connection,     \* self._connection: 0 is None, n > 0 is the n-th handle made
    handles,        \* number of connections the factory has returned so far
    closed,         \* handles on which close() has been called
    pc,             \* position of the current public call
    op,             \* the public operation being served ("" when idle)
    attempt,        \* loop variable of _execute_with_retry
    last_error,     \* the exception being handled / raised by the executor
    result,         \* value returned by query_func on success
    trace,          \* events of the current call, in order
    calls,          \* number of public calls started
    outcome,        \* what the caller of the public operation received
    ui,             \* what run_query handed to the presentation layer
    factory_calls,  \* times get_databricks_connection() has been called so far
    connection_failure  \* an error the except clause classed as a connection
                        \* error has been raised so far

varsExec == <<http_path, connection, handles, closed, pc, op, attempt,
              last_error, result, trace, calls, outcome, ui,
              factory_calls, connection_failure>>

\* The record of the process so far, which no call resets
varsSeen == <<factory_calls, connection_failure>>

\* State of the warehouse tables, the mapping service and the last linked query
VARIABLES
    stage1_table,   \* rows of the Stage 1 table
    stage2_table,   \* rows of the Stage 2 table
    loaded,         \* databricks_mapping_service._loaded
    farm_mapping,   \* databricks_mapping_service._farm_mapping
    args,           \* arguments of the last query_stage1_stage2_linked call
    rows,           \* the frame it returned
    failed,         \* whether its _execute_with_retry raised
    phase           \* "writing" until the query is answered, then "answered"

varsLink == <<stage1_table, stage2_table, loaded, farm_mapping, args, rows,
              failed, phase>>

\* State of the dropdown lists: the camera mapping and the last list call
VARIABLES
    camera_mapping, \* databricks_mapping_service._camera_mapping
    list_call,      \* the last get_available_* call: operation, date, argument
    choices         \* the list it returned

varsList == <<camera_mapping, list_call, choices>>

\* State of the mapping service beside _loaded and the two mappings above (Part V)
VARIABLES
    tenant_mapping, \* databricks_mapping_service._tenant_mapping
    load_runs,      \* runs of load() that read the warehouse since the last reload()
                    \* was called (the load of that reload() included)
    load_failed,    \* the last run of load() ended in its except clause
    reloads,        \* number of reload() calls so far
    mapping_out     \* the last call on the mapping service and what it returned

varsMap == <<tenant_mapping, load_runs, load_failed, reloads, mapping_out>>

\* State of the temporary files: the TempFileManager and the disk (Part VI)
VARIABLES
    max_videos,        \* temp_file_manager._max_videos
    max_gifs,          \* temp_file_manager._max_gifs
    temp_video_files,  \* temp_file_manager._temp_video_files
    temp_gif_files,    \* temp_file_manager._temp_gif_files
    disk,              \* the temporary files that exist
    tracked_log,       \* every path handed to track_video / track_gif, in order
    evicted,           \* the paths each track_* call dropped and unlinked, in order
    next_file,         \* number of temporary files created so far
    media_out          \* the last media call: what it created and returned

varsFiles == <<max_videos, max_gifs, temp_video_files, temp_gif_files, disk,
               tracked_log, evicted, next_file, media_out>>

\* State of the user interface: app_state and the handlers (Part VII)
VARIABLES
    query_results,      \* app_state.query_results, a list of rows
    row_cache,          \* app_state.row_cache
    last_selected_row,  \* app_state.last_selected_row
    generation,         \* number of result sets stored in app_state so far
    selections,         \* number of get_row_details calls so far
    ui_out              \* what the last handler returned

varsUi == <<query_results, row_cache, last_selected_row, generation, selections,
            ui_out>>

\* State of the handlers running side by side on the shared service (Part VIII)
VARIABLES
    shared_connection,  \* query_service._connection: a handle, or NoHandle
    closed_handles,     \* the handles on which close() has been called
    handles_opened,     \* number of handles the factory has returned
    handler_pc,         \* where each handler is
    handler_handle,     \* the handle each handler's query_func was given
    handler_attempt,    \* each handler's loop variable attempt
    handler_calls,      \* the service calls each handler has still to make
    handler_runs        \* number of handler invocations so far

varsHandlers == <<shared_connection, closed_handles, handles_opened, handler_pc,
                  handler_handle, handler_attempt, handler_calls, handler_runs>>

\* State of the key extraction applied to one path (Part IV)
VARIABLES
    key_input,      \* how the texts were composed
    stage1_text,    \* the trigger-frame path given to the Stage 1 extraction
    stage2_text,    \* the file name given to the Stage 2 extraction
    stage1_key,     \* (blk_file, frame_timestamp_key) of stage1_text, once extracted
    stage2_key      \* (blk_file, video_timestamp_key) of stage2_text, once extracted

varsKeys == <<key_input, stage1_text, stage2_text, stage1_key, stage2_key>>

\* What the actions of each part leave alone
OutsideExec == <<varsLink, varsList, varsMap, varsFiles, varsUi, varsKeys, varsHandlers>>

OutsideLink == <<varsExec, varsFiles, varsUi, varsKeys, varsHandlers>>

OutsideKeys == <<varsExec, varsLink, varsList, varsMap, varsFiles, varsUi, varsHandlers>>

OutsideMap == <<varsExec, varsFiles, varsUi, varsKeys, varsHandlers>>

OutsideFiles == <<varsExec, varsLink, varsList, varsMap, varsUi, varsKeys, varsHandlers>>

OutsideUi == <<varsExec, varsLink, varsList, varsMap, varsKeys, varsHandlers>>

OutsideHandlers == <<varsExec, varsLink, varsList, varsMap, varsFiles, varsUi, varsKeys>>

NoError == [type |-> "", msg |-> "", kind |-> "none"]

\* What a failure really is (the ground truth of the input, not the code's guess).
ConnectionKinds == {"timeout", "closed_socket", "session", "request_error"}

QueryKinds == {"syntax", "permission", "missing_table", "data"}

\* Errors cursor.execute()/fetchall() can raise inside query_func: the exception's
\* class name, its str() and what the failure really is.
OperationErrors ==
    { [type |-> "RequestError", msg |-> "HTTPSConnectionPool: Max retries exceeded",
       kind |-> "request_error"],
      [type |-> "OperationalError", msg |-> "Read Timeout on socket",
       kind |-> "timeout"],
      [type |-> "Error", msg |-> "Connection is CLOSED",
       kind |-> "closed_socket"],
      [type |-> "DatabaseError", msg |-> "Invalid SessionHandle",
       kind |-> "session"],
      [type |-> "ServerOperationError", msg |-> "PARSE_SYNTAX_ERROR near FORM",
       kind |-> "syntax"],
      [type |-> "ServerOperationError", msg |-> "INSUFFICIENT_PERMISSIONS on table",
       kind |-> "permission"],
      [type |-> "ServerOperationError", msg |-> "TABLE_OR_VIEW_NOT_FOUND stage1",
       kind |-> "missing_table"],
      [type |-> "ServerOperationError", msg |-> "UNRESOLVED_COLUMN session_id",
       kind |-> "syntax"],
      [type |-> "ServerOperationError", msg |-> "CAST_INVALID_INPUT expired_at",
       kind |-> "data"] }

\* get_databricks_connection() with no HTTP path: raise ValueError(...)
ConfigurationError ==
    [type |-> "ValueError",
     msg  |-> "Databricks HTTP path not configured. Please set DATABRICKS_HTTP_PATH environment variable. Example: /sql/1.0/warehouses/your-warehouse-id",
     kind |-> "config"]

\* Errors of WorkspaceClient(), cfg.authenticate(), sql.connect() and the
\* SELECT 1 test query, all re-raised by get_databricks_connection().
ConnectErrors ==
    { [type |-> "RequestError", msg |-> "Error during request to server",
       kind |-> "request_error"],
      [type |-> "ValueError", msg |-> "No Authorization header",
       kind |-> "auth"] }

\* Mutant: the HTTP path is looked at only after the connection was attempted.
ConnectBeforePathCheck(path) ==
    ConnectErrors \cup {IF path = "" THEN ConfigurationError ELSE NoError}

\* The outcomes of get_databricks_connection(): the error it raises, or NoError
\* when it returns a connection.
get_databricks_connection(path) ==
    IF path = "" THEN {ConfigurationError} ELSE ConnectErrors \cup {NoError}

\* keywords of the connection-error test
Keywords == {"connection", "closed", "timeout", "broken pipe", "session", "expired",
             "invalid session", "error during request", "request to server"}

\* is_connection_error of _execute_with_retry
is_connection_error(e) ==
    \/ e.type = "RequestError"
    \/ \E keyword \in Keywords : Contains(Lower(e.msg), keyword)

\* The errors the except clause takes for connection errors: is_connection_error
\* over every error the factory and the operation can raise, worked out once.
ClassedAsConnection ==
    {e \in OperationErrors \cup ConnectErrors \cup {ConfigurationError} :
        is_connection_error(e)}

Ops == {"query_stage1_stage2_linked", "get_available_tenants",
        "get_available_farms", "get_available_cameras"}

AllSentinel == <<"All", "All">>

\* pd.DataFrame(): the frame with no rows
EmptyFrame == << >>

\* What query_func can return: the rows the warehouse hands back, already shaped by
\* execute_query (a frame for the linked query, each row a tuple of column values;
\* [("All","All")] + entries for a list).
OpResults(o) ==
    IF o = "query_stage1_stage2_linked"
    THEN {EmptyFrame, << <<"row1">> >>, << <<"row1">>, <<"row2">> >>}
    ELSE {<<AllSentinel>>, <<AllSentinel, <<"name1", "id1">> >>}

\* The value each public operation returns from its except clause.
FailureValue(o) ==
    IF o = "query_stage1_stage2_linked" THEN EmptyFrame ELSE <<AllSentinel>>

\* One step of a call as the caller could log it: what happened, on which handle,
\* the error raised (NoError when none) and the value returned.
Event(ev, h, e, v) == [ev |-> ev, h |-> h, err |-> e, val |-> v]

RunQueryDate == "2026-01-21"

NoUi == [df |-> EmptyFrame, status |-> ""]

InitExec ==
    /\ http_path \in {"", "/sql/1.0/warehouses/w"}
    /\ connection = 0
    /\ handles = 0
    /\ closed = {}
    /\ pc = "Idle"
    /\ op = ""
    /\ attempt = 0
    /\ last_error = NoError
    /\ result = EmptyFrame
    /\ trace = << >>
    /\ calls = 0
    /\ outcome = [raised |-> FALSE, error |-> NoError, value |-> EmptyFrame]
    /\ ui = NoUi
    /\ factory_calls = 0
    /\ connection_failure = FALSE

\* A handler calls a public operation, which reaches  for attempt in range(max_retries)
Call(o) ==
    /\ pc = "Idle"
    /\ calls < MaxCalls
    /\ calls' = calls + 1
    /\ op' = o
    /\ attempt' = 0
    /\ last_error' = NoError
    /\ result' = EmptyFrame
    /\ trace' = << >>
    /\ pc' = "Executing"
    /\ UNCHANGED <<http_path, connection, handles, closed, outcome, ui>>
    /\ UNCHANGED varsSeen
    /\ UNCHANGED OutsideExec

\* Mutant: every call opens a connection of its own before it executes.
ConnectPerCall ==
    /\ pc = "Executing"
    /\ trace = << >>
    /\ \E e \in get_databricks_connection(http_path) :
         IF e = NoError
         THEN /\ connection' = handles + 1
              /\ handles' = handles + 1
              /\ trace' = Append(trace, Event("factory", handles + 1, NoError, EmptyFrame))
              /\ UNCHANGED <<pc, last_error, connection_failure>>
         ELSE /\ last_error' = e
              /\ pc' = "Handling"
              /\ trace' = Append(trace, Event("factory", 0, e, EmptyFrame))
              /\ connection_failure' = (connection_failure \/ e \in ClassedAsConnection)
              /\ UNCHANGED <<connection, handles>>
    /\ factory_calls' = factory_calls + 1
    /\ UNCHANGED <<http_path, closed, op, attempt, result, calls, outcome, ui>>
    /\ UNCHANGED OutsideExec

\* The property  self.connection  when no handle is held: the factory is called
\* inside the try of _execute_with_retry.
Connect ==
    /\ pc = "Executing"
    /\ connection = 0
    /\ \E e \in get_databricks_connection(http_path) :
         IF e = NoError
         THEN /\ connection' = handles + 1
              /\ handles' = handles + 1
              /\ trace' = Append(trace, Event("factory", handles + 1, NoError, EmptyFrame))
              /\ UNCHANGED <<pc, last_error, connection_failure>>
         ELSE /\ last_error' = e
              /\ pc' = "Handling"
              /\ trace' = Append(trace, Event("factory", 0, e, EmptyFrame))
              /\ connection_failure' = (connection_failure \/ e \in ClassedAsConnection)
              /\ UNCHANGED <<connection, handles>>
    /\ factory_calls' = factory_calls + 1
    /\ UNCHANGED <<http_path, closed, op, attempt, result, calls, outcome, ui>>
    /\ UNCHANGED OutsideExec

\* query_func(self.connection): returns a value or raises
Execute ==
    /\ pc = "Executing"
    /\ connection # 0
    /\ \/ \E r \in OpResults(op) :
            /\ result' = r
            /\ pc' = "Success"
            /\ trace' = Append(trace, Event("exec", connection, NoError, r))
            /\ UNCHANGED <<last_error, connection_failure>>
       \/ \E e \in OperationErrors :
            /\ last_error' = e
            /\ pc' = "Handling"
            /\ trace' = Append(trace, Event("exec", connection, e, EmptyFrame))
            /\ connection_failure' = (connection_failure \/ e \in ClassedAsConnection)
            /\ UNCHANGED result
    /\ UNCHANGED <<http_path, connection, handles, closed, op, attempt, calls,
                   outcome, ui, factory_calls>>
    /\ UNCHANGED OutsideExec

\* Mutant: the attempt bound is forgotten.
ClassifyUnbounded ==
    /\ pc = "Handling"
    /\ IF last_error \in ClassedAsConnection
       THEN pc' = "Reconnecting"
       ELSE pc' = "FatalFailure"
    /\ UNCHANGED <<http_path, connection, handles, closed, op, attempt, last_error,
                   result, trace, calls, outcome, ui>>
    /\ UNCHANGED varsSeen
    /\ UNCHANGED OutsideExec

\* Mutant: a connection error is retried on the handle at hand, without _reconnect.
ClassifyNoReconnect ==
    /\ pc = "Handling"
    /\ IF last_error \in ClassedAsConnection /\ attempt < max_retries - 1
       THEN pc' = "Executing" /\ attempt' = attempt + 1
       ELSE pc' = "FatalFailure" /\ attempt' = attempt
    /\ UNCHANGED <<http_path, connection, handles, closed, op, last_error,
                   result, trace, calls, outcome, ui>>
    /\ UNCHANGED varsSeen
    /\ UNCHANGED OutsideExec

\* Mutant: every error is retried while attempts remain.
ClassifyAnyError ==
    /\ pc = "Handling"
    /\ IF attempt < max_retries - 1
       THEN pc' = "Reconnecting"
       ELSE pc' = "FatalFailure"
    /\ UNCHANGED <<http_path, connection, handles, closed, op, attempt, last_error,
                   result, trace, calls, outcome, ui>>
    /\ UNCHANGED varsSeen
    /\ UNCHANGED OutsideExec

\* Mutant: an error that is not retried ends the call without being raised.
ClassifyDrop ==
    /\ pc = "Handling"
    /\ IF last_error \in ClassedAsConnection /\ attempt < max_retries - 1
       THEN pc' = "Reconnecting"
       ELSE pc' = "Idle"
    /\ UNCHANGED <<http_path, connection, handles, closed, op, attempt, last_error,
                   result, trace, calls, outcome, ui>>
    /\ UNCHANGED varsSeen
    /\ UNCHANGED OutsideExec

\* The except clause: retry after a reconnect, or raise
Classify ==
    /\ pc = "Handling"
    /\ IF last_error \in ClassedAsConnection /\ attempt < max_retries - 1
       THEN pc' = "Reconnecting"
       ELSE pc' = "FatalFailure"
    /\ UNCHANGED <<http_path, connection, handles, closed, op, attempt, last_error,
                   result, trace, calls, outcome, ui>>
    /\ UNCHANGED varsSeen
    /\ UNCHANGED OutsideExec

\* Mutant: an error of close() ends the reconnect.
ReconnectCloseStrict ==
    /\ pc = "Reconnecting"
    /\ \E closeRaises \in BOOLEAN :
         /\ trace' = trace \o
                  <<Event("reconnect", connection, NoError, EmptyFrame)>> \o
                  (IF connection # 0
                   THEN <<Event("close", connection,
                                IF closeRaises
                                THEN [type |-> "Error", msg |-> "close failed",
                                      kind |-> "close"]
                                ELSE NoError,
                                EmptyFrame)>>
                   ELSE << >>)
         /\ pc' = IF closeRaises /\ connection # 0 THEN "FatalFailure" ELSE "Reopening"
    /\ closed' = IF connection # 0 THEN closed \cup {connection} ELSE closed
    /\ connection' = 0
    /\ UNCHANGED <<http_path, handles, op, attempt, last_error, result, calls,
                   outcome, ui>>
    /\ UNCHANGED varsSeen
    /\ UNCHANGED OutsideExec

\* Mutant: _reconnect without  self._connection = None.
ReconnectKeepStale ==
    /\ pc = "Reconnecting"
    /\ \E closeRaises \in BOOLEAN :
         trace' = trace \o
                  <<Event("reconnect", connection, NoError, EmptyFrame)>> \o
                  (IF connection # 0
                   THEN <<Event("close", connection,
                                IF closeRaises
                                THEN [type |-> "Error", msg |-> "close failed",
                                      kind |-> "close"]
                                ELSE NoError,
                                EmptyFrame)>>
                   ELSE << >>)
    /\ closed' = IF connection # 0 THEN closed \cup {connection} ELSE closed
    /\ pc' = "Reopening"
    /\ UNCHANGED <<http_path, connection, handles, op, attempt, last_error, result,
                   calls, outcome, ui>>
    /\ UNCHANGED varsSeen
    /\ UNCHANGED OutsideExec

\* _reconnect, first half: close the old connection (an error of close() is
\* printed and dropped), then  self._connection = None
ReconnectClose ==
    /\ pc = "Reconnecting"
    /\ \E closeRaises \in BOOLEAN :
         trace' = trace \o
                  <<Event("reconnect", connection, NoError, EmptyFrame)>> \o
                  (IF connection # 0
                   THEN <<Event("close", connection,
                                IF closeRaises
                                THEN [type |-> "Error", msg |-> "close failed",
                                      kind |-> "close"]
                                ELSE NoError,
                                EmptyFrame)>>
                   ELSE << >>)
    /\ closed' = IF connection # 0 THEN closed \cup {connection} ELSE closed
    /\ connection' = 0
    /\ pc' = "Reopening"
    /\ UNCHANGED <<http_path, handles, op, attempt, last_error, result, calls,
                   outcome, ui>>
    /\ UNCHANGED varsSeen
    /\ UNCHANGED OutsideExec

\* _reconnect, second half:  self._connection = get_databricks_connection();
\* its error leaves the except clause of _execute_with_retry and the function.
ReconnectOpen ==
    /\ pc = "Reopening"
    /\ \E e \in get_databricks_connection(http_path) :
         IF e = NoError
         THEN /\ connection' = handles + 1
              /\ handles' = handles + 1
              /\ trace' = Append(trace, Event("factory", handles + 1, NoError, EmptyFrame))
              /\ attempt' = attempt + 1
              /\ pc' = "Executing"
              /\ UNCHANGED <<last_error, connection_failure>>
         ELSE /\ last_error' = e
              /\ pc' = "FatalFailure"
              /\ trace' = Append(trace, Event("factory", 0, e, EmptyFrame))
              /\ connection_failure' = (connection_failure \/ e \in ClassedAsConnection)
              /\ UNCHANGED <<connection, handles, attempt>>
    /\ factory_calls' = factory_calls + 1
    /\ UNCHANGED <<http_path, closed, op, result, calls, outcome, ui>>
    /\ UNCHANGED OutsideExec

\* Mutant: the except clause lets errors other than connection errors through.
PublicReturnNarrow(o, terminal, value, e) ==
    IF terminal = "Success"
    THEN [raised |-> FALSE, error |-> NoError, value |-> value]
    ELSE IF is_connection_error(e)
         THEN [raised |-> FALSE, error |-> NoError, value |-> FailureValue(o)]
         ELSE [raised |-> TRUE, error |-> e, value |-> EmptyFrame]

\* try: return self._execute_with_retry(execute_query)
\* except Exception as e: ... return pd.DataFrame()   (or [("All", "All")])
PublicReturn(o, terminal, value, e) ==
    IF terminal = "Success"
    THEN [raised |-> FALSE, error |-> NoError, value |-> value]
    ELSE [raised |-> FALSE, error |-> NoError, value |-> FailureValue(o)]

\* run_query after the service call: what it returns to the presentation layer
\* (format_results_for_display keeps the rows; filter_parts holds the date only
\* when every dropdown is on "All" and both time boxes are blank).
run_query(out) ==
    IF out.raised
    THEN [df |-> EmptyFrame, status |-> "Error: " \o out.error.msg]
    ELSE IF out.value = EmptyFrame
         THEN [df |-> EmptyFrame,
               status |-> "No results found. Filters: " \o "Date: " \o RunQueryDate]
         ELSE [df |-> out.value,
               status |-> "Found results | " \o "Date: " \o RunQueryDate]

\* The public operation hands its value to the handler that called it.
Return ==
    /\ pc \in {"Success", "FatalFailure"}
    /\ outcome' = PublicReturn(op, pc, result, last_error)
    /\ ui' = IF op = "query_stage1_stage2_linked" THEN run_query(outcome') ELSE ui
    /\ pc' = "Idle"
    /\ UNCHANGED <<http_path, connection, handles, closed, op, attempt, last_error,
                   result, trace, calls>>
    /\ UNCHANGED varsSeen
    /\ UNCHANGED OutsideExec

NextExec ==
    \/ \E o \in Ops : Call(o)
    \/ Connect
    \/ Execute
    \/ Classify
    \/ ReconnectClose
    \/ ReconnectOpen
    \/ Return

(***************************************************************************)
(* Part III - the linkage query of query_stage1_stage2_linked, as the      *)
(* warehouse (Databricks SQL) evaluates it.                                *)
(***************************************************************************)

\* Bounds of the exploration: rows the pipeline has written to each table
MaxStage1 == 3

MaxStage2 == 2

\* SQL NULL, and Python's None
NULL == "<NULL>"

None == "<None>"

Digits == <<"0", "1", "2", "3", "4", "5", "6", "7", "8", "9">>

IsDigit(c) == \E k \in 1..10 : Digits[k] = c

\* A regular expression of fixed width matches s at position i; in pat the
\* character # stands for \d and every other character for itself.
MatchesAt(s, i, pat) ==
    /\ i >= 1
    /\ i + Len(pat) - 1 <= Len(s)
    /\ \A k \in 1..Len(pat) :
         IF Char(pat, k) = "#"
         THEN IsDigit(Char(s, i + k - 1))
         ELSE Char(s, i + k - 1) = Char(pat, k)

\* REGEXP_EXTRACT(str, '<pre>(<group>)<post>', 1) of Databricks SQL: NULL for a
\* NULL str, the empty string when the pattern matches nowhere, else group 1 of
\* the leftmost match; anchored is a leading ^.
RegexpExtract(str, anchored, pre, group, post) ==
    IF str = NULL THEN NULL
    ELSE LET pat == pre \o group \o post
             at  == {i \in (IF anchored THEN {1} ELSE 1..Len(str)) :
                        MatchesAt(str, i, pat)}
         IN  IF at = {} THEN ""
             ELSE LET i == CHOOSE x \in at : \A y \in at : x <= y
                  IN  SubSeq(str, i + Len(pre), i + Len(pre) + Len(group) - 1)

\* (\d{3}_\d{7})
BlockGroup == "###_#######"

\* (\d{4}-\d{2}-\d{2}T\d{2}:\d{2}:\d{2})
TimestampGroup == "####-##-##T##:##:##"

\* Leftmost occurrence of the literal pat in s at or after position i (0: none)
RECURSIVE FindFrom(_, _, _)
FindFrom(s, pat, i) ==
    IF i + Len(pat) - 1 > Len(s) THEN 0
    ELSE IF SubSeq(s, i, i + Len(pat) - 1) = pat THEN i
    ELSE FindFrom(s, pat, i + 1)

\* REGEXP_REPLACE(str, pat, rep) for a literal pat: every occurrence, left to right
RECURSIVE ReplaceAllFrom(_, _, _, _)
ReplaceAllFrom(s, pat, rep, i) ==
    LET j == FindFrom(s, pat, i)
    IN  IF j = 0 THEN SubSeq(s, i, Len(s))
        ELSE SubSeq(s, i, j - 1) \o rep \o ReplaceAllFrom(s, pat, rep, j + Len(pat))

RegexpReplaceLiteral(str, pat, rep) ==
    IF str = NULL THEN NULL ELSE ReplaceAllFrom(str, pat, rep, 1)

\* REGEXP_REPLACE(str, '<suffix>$', rep) for a literal suffix
RegexpReplaceSuffix(str, suffix, rep) ==
    IF str = NULL THEN NULL
    ELSE IF /\ Len(str) >= Len(suffix)
            /\ SubSeq(str, Len(str) - Len(suffix) + 1, Len(str)) = suffix
         THEN SubSeq(str, 1, Len(str) - Len(suffix)) \o rep
         ELSE str

\* SQL's  a = b  is true only for two non-NULL equal values
SqlEq(a, b) == a # NULL /\ b # NULL /\ a = b

\* DATE_FORMAT(ts, 'HH:mm:ss') of a time of day <<hour, minute, second>>
TwoDigits(n) == Digits[(n \div 10) + 1] \o Digits[(n % 10) + 1]

DateFormatHHmmss(t) ==
    TwoDigits(t[1]) \o ":" \o TwoDigits(t[2]) \o ":" \o TwoDigits(t[3])

\* The characters of the strings compared, in the order of their code points
CodeOrder == " -./0123456789:ABCDEFGHIJKLMNOPQRSTUVWXYZ_abcdefghijklmnopqrstuvwxyz"

Ord(c) == CHOOSE k \in 1..Len(CodeOrder) : Char(CodeOrder, k) = c

\* a <= b for strings, as SQL compares them (code point by code point)
RECURSIVE StrLeqFrom(_, _, _)
StrLeqFrom(x, y, i) ==
    IF i > Len(x) THEN TRUE
    ELSE IF i > Len(y) THEN FALSE
    ELSE IF Char(x, i) = Char(y, i) THEN StrLeqFrom(x, y, i + 1)
    ELSE Ord(Char(x, i)) < Ord(Char(y, i))

\* Mutant: the comparison is strict.
StrLess(x, y) == x # y /\ StrLeqFrom(x, y, 1)

StrLeq(x, y) == StrLeqFrom(x, y, 1)

\* str.count(c) for a character c
CountChar(str, c) == Cardinality({i \in 1..Len(str) : Char(str, i) = c})

\* Rows the upstream pipeline may write to the Stage 1 table. day is the calendar
\* day of processing_timestamp (a day number), time its time of day, frame_uri is
\* frame_uris[0].
Stage1Catalogue ==
    { [rid |-> 1, session_id |-> "s1", farm_id |-> "farm_a", camera_id |-> "cam_1",
       day |-> 10, time |-> <<8, 15, 30>>, should_forward |-> TRUE,
       frame_uri |-> "gs://b/frames-to-analyze/x/042_0000015_2026-01-21T08:15:30.jpg"],
      [rid |-> 2, session_id |-> "s2", farm_id |-> "farm_a", camera_id |-> "cam_2",
       day |-> 10, time |-> <<8, 15, 30>>, should_forward |-> FALSE,
       frame_uri |-> "gs://b/frames-to-analyze/y/042_0000015_2026-01-21T08:15:30.jpg"],
      [rid |-> 3, session_id |-> "s3", farm_id |-> "farm_b", camera_id |-> "cam_3",
       day |-> 10, time |-> <<23, 59, 59>>, should_forward |-> TRUE,
       frame_uri |-> "gs://b/frames-to-analyze/z/frame.jpg"],
      [rid |-> 4, session_id |-> "s4", farm_id |-> NULL, camera_id |-> "cam_1",
       day |-> 10, time |-> <<9, 0, 0>>, should_forward |-> FALSE,
       frame_uri |-> NULL],
      [rid |-> 5, session_id |-> "s5", farm_id |-> "farm_a", camera_id |-> "cam_1",
       day |-> 11, time |-> <<0, 0, 0>>, should_forward |-> TRUE,
       frame_uri |-> "gs://b/frames-to-analyze/x/042_0000015_2026-01-21T08:15:30.jpg"],
      [rid |-> 6, session_id |-> "s6", farm_id |-> "farm_c", camera_id |-> "cam_1",
       day |-> 10, time |-> <<8, 15, 0>>, should_forward |-> TRUE,
       frame_uri |-> "gs://b/frames-to-analyze/x/042_0000015_20260121.jpg"] }

\* Rows the pipeline may write to the Stage 2 table. day is the calendar day of
\* inference_timestamp.
Stage2Catalogue ==
    { [rid |-> 1, inference_id |-> "i1", camera_id |-> "cam_1", day |-> 10,
       file_name |-> "042_0000015_2026-01-21T08:15:30.mp4",
       video_gcs_path |-> "gs://b/video-to-analyze/x/042_0000015_2026-01-21T08:15:30.mp4"],
      [rid |-> 2, inference_id |-> "i2", camera_id |-> "cam_1", day |-> 12,
       file_name |-> "042_0000015_2026-01-21T08:15:30.mp4",
       video_gcs_path |-> "gs://b/video-to-analyze/r/042_0000015_2026-01-21T08:15:30.mp4"],
      [rid |-> 3, inference_id |-> "i3", camera_id |-> "cam_2", day |-> 13,
       file_name |-> "042_0000015_2026-01-21T08:15:30.mp4",
       video_gcs_path |-> "gs://b/video-to-analyze/y/042_0000015_2026-01-21T08:15:30.mp4"],
      [rid |-> 4, inference_id |-> "i4", camera_id |-> "cam_3", day |-> 10,
       file_name |-> "clip.mp4",
       video_gcs_path |-> "gs://b/video-to-analyze/z/clip.mp4"],
      [rid |-> 5, inference_id |-> "i5", camera_id |-> "cam_1", day |-> 10,
       file_name |-> NULL,
       video_gcs_path |-> NULL],
      [rid |-> 7, inference_id |-> "i7", camera_id |-> "cam_2", day |-> 7,
       file_name |-> "042_0000015_2026-01-21T08:15:30.mp4",
       video_gcs_path |-> "gs://b/video-to-analyze/y/042_0000015_2026-01-21T08:15:30.mp4"],
      [rid |-> 8, inference_id |-> "i8", camera_id |-> "cam_2", day |-> 8,
       file_name |-> "042_0000015_2026-01-21T08:15:30.mp4",
       video_gcs_path |-> NULL] }

\* The farm_map table: farm_id, farm_name, tenant_id
FarmMapTable ==
    { [farm_id |-> "farm_a", farm_name |-> "Willow Farm", tenant_id |-> "tenant_1"],
      [farm_id |-> "farm_b", farm_name |-> "Birch Farm", tenant_id |-> "tenant_2"],
      [farm_id |-> "farm_c", farm_name |-> NULL, tenant_id |-> NULL] }

\* The tenant_map table: tenant_id, tenant_name
TenantMapTable ==
    { [tenant_id |-> "tenant_1", tenant_name |-> "Zeta Dairy"],
      [tenant_id |-> "tenant_2", tenant_name |-> "Alpha Farms"] }

\* The farm_camera_map table: camera_id, camera_name (cam_3 has no row)
CameraMapTable ==
    { [camera_id |-> "cam_1", camera_name |-> "Yard North"],
      [camera_id |-> "cam_2", camera_name |-> "Barn"] }

\* tenant_mapping.get(tenant_id, {}).get('name', 'Unknown Tenant') if tenant_id
\* else 'Unknown Tenant'
TenantNameOf(tenant_id) ==
    IF tenant_id = NULL \/ tenant_id = "" THEN "Unknown Tenant"
    ELSE IF \E t \in TenantMapTable : t.tenant_id = tenant_id
         THEN LET t == CHOOSE x \in TenantMapTable : x.tenant_id = tenant_id
              IN  IF t.tenant_name = NULL THEN "Unknown Tenant" ELSE t.tenant_name
         ELSE "Unknown Tenant"

\* farm_mapping as load() builds it from the rows of farm_map
LoadedFarmMapping ==
    [f \in {r.farm_id : r \in FarmMapTable} |->
        LET r == CHOOSE x \in FarmMapTable : x.farm_id = f
        IN  [name        |-> IF r.farm_name = NULL THEN "Unknown Farm" ELSE r.farm_name,
             tenant_id   |-> IF r.tenant_id = NULL THEN "" ELSE r.tenant_id,
             tenant_name |-> TenantNameOf(r.tenant_id)]]

\* farm_mapping = {}
EmptyMapping == [f \in {} |-> [name |-> "", tenant_id |-> "", tenant_name |-> ""]]

\* camera_mapping as load() builds it from the rows of farm_camera_map
LoadedCameraMapping ==
    [c \in {r.camera_id : r \in CameraMapTable} |->
        LET r == CHOOSE x \in CameraMapTable : x.camera_id = c
        IN  [name |-> IF r.camera_name = NULL THEN "Unknown Camera"
                      ELSE r.camera_name]]

\* camera_mapping = {}
EmptyCameraMapping == [c \in {} |-> [name |-> ""]]

\* tenant_mapping as load() builds it from the rows of tenant_map (of ui_url and
\* slug, which no caller in src/ reads, only the name is kept)
LoadedTenantMapping ==
    [t \in {r.tenant_id : r \in TenantMapTable} |->
        LET r == CHOOSE x \in TenantMapTable : x.tenant_id = t
        IN  [name |-> IF r.tenant_name = NULL THEN "Unknown Tenant"
                      ELSE r.tenant_name]]

\* tenant_mapping = {}
EmptyTenantMapping == [t \in {} |-> [name |-> ""]]

\* No call on the mapping service yet
NoMappingCall == [op |-> "", arg |-> "", value |-> << >>]

\* A Python value is truthy:  if start_time:  /  if tenant_id and ...
Truthy(x) == x # None /\ x # ""

\* REGEXP_EXTRACT(frame_uris[0], '/(\d{3}_\d{7})_', 1) AS blk_file
stage1_blk_file(uri) == RegexpExtract(uri, FALSE, "/", BlockGroup, "_")

\* REGEXP_EXTRACT(frame_uris[0], '_(\d{4}-\d{2}-\d{2}T\d{2}:\d{2}:\d{2})', 1)
frame_timestamp_key(uri) == RegexpExtract(uri, FALSE, "_", TimestampGroup, "")

\* REGEXP_EXTRACT(file_name, '^(\d{3}_\d{7})_', 1) AS blk_file
stage2_blk_file(file_name) == RegexpExtract(file_name, TRUE, "", BlockGroup, "_")

\* REGEXP_EXTRACT(file_name, '_(\d{4}-\d{2}-\d{2}T\d{2}:\d{2}:\d{2})', 1)
video_timestamp_key(file_name) ==
    RegexpExtract(file_name, FALSE, "_", TimestampGroup, "")

\* The stage1_data CTE: the columns of one Stage 1 row, with its two keys
stage1_data(r) ==
    [rid |-> r.rid, session_id |-> r.session_id, farm_id |-> r.farm_id,
     camera_id |-> r.camera_id, day |-> r.day, time |-> r.time,
     stage1_should_forward |-> r.should_forward,
     trigger_frame_uri |-> r.frame_uri,
     blk_file |-> stage1_blk_file(r.frame_uri),
     frame_timestamp_key |-> frame_timestamp_key(r.frame_uri)]

\* The stage2_data CTE
stage2_data(r) ==
    [rid |-> r.rid, stage2_inference_id |-> r.inference_id,
     camera_id |-> r.camera_id, day |-> r.day,
     video_gcs_path |-> r.video_gcs_path, video_filename |-> r.file_name,
     blk_file |-> stage2_blk_file(r.file_name),
     video_timestamp_key |-> video_timestamp_key(r.file_name)]

\* The keys of the catalogue rows, computed once
Stage1Data == [r \in Stage1Catalogue |-> stage1_data(r)]

Stage2Data == [r \in Stage2Catalogue |-> stage2_data(r)]

\* The s2 side of a joined row with no match: every column NULL
NoStage2 ==
    [rid |-> 0, stage2_inference_id |-> NULL, camera_id |-> NULL, day |-> 0,
     video_gcs_path |-> NULL, video_filename |-> NULL, blk_file |-> NULL,
     video_timestamp_key |-> NULL]

\* Mutant: the search window is a day wider on each side.
InStage2WindowWide(day, date) == date - 3 <= day /\ day <= date + 3

\* WHERE DATE(inference_timestamp) BETWEEN DATE_SUB(date, 2) AND DATE_ADD(date, 2)
InStage2Window(day, date) == date - 2 <= day /\ day <= date + 2

\* The ON clause of the LEFT JOIN
JoinOn(s1, s2) ==
    /\ SqlEq(s1.camera_id, s2.camera_id)
    /\ SqlEq(s1.blk_file, s2.blk_file)
    /\ SqlEq(s1.frame_timestamp_key, s2.video_timestamp_key)

\* Mutant: a tenant without farms adds no filter.
TenantFilterOpen(tenant_id, mapping) ==
    IF Truthy(tenant_id) /\ tenant_id # "All"
    THEN LET tenant_farm_ids ==
                 {fid \in DOMAIN mapping : mapping[fid].tenant_id = tenant_id}
         IN  IF tenant_farm_ids # {}
             THEN {[k |-> "farm_in", v |-> tenant_farm_ids]}
             ELSE {}
    ELSE {}

\* The tenant filter: an IN-list of the tenant's farms, or 1=0
TenantFilter(tenant_id, mapping) ==
    IF Truthy(tenant_id) /\ tenant_id # "All"
    THEN LET tenant_farm_ids ==
                 {fid \in DOMAIN mapping : mapping[fid].tenant_id = tenant_id}
         IN  IF tenant_farm_ids # {}
             THEN {[k |-> "farm_in", v |-> tenant_farm_ids]}
             ELSE {[k |-> "false", v |-> {}]}
    ELSE {}

\* The list  filters  of query_stage1_stage2_linked (AND-ed, so a set)
Filters(a, mapping) ==
    TenantFilter(a.tenant_id, mapping)
    \cup (IF Truthy(a.start_time)
          THEN {[k |-> "time_ge",
                 v |-> IF CountChar(a.start_time, ":") = 2 THEN a.start_time
                       ELSE a.start_time \o ":00"]}
          ELSE {})
    \cup (IF Truthy(a.end_time)
          THEN {[k |-> "time_le",
                 v |-> IF CountChar(a.end_time, ":") = 2 THEN a.end_time
                       ELSE a.end_time \o ":59"]}
          ELSE {})
    \cup (IF Truthy(a.farm_id) /\ a.farm_id # "All"
          THEN {[k |-> "farm_eq", v |-> a.farm_id]} ELSE {})
    \cup (IF Truthy(a.camera_id) /\ a.camera_id # "All"
          THEN {[k |-> "camera_eq", v |-> a.camera_id]} ELSE {})
    \cup (IF a.should_forward_only THEN {[k |-> "forward", v |-> TRUE]} ELSE {})

\* One filter is true of a Stage 1 row (NULL = x is not true)
FilterHolds(f, s1) ==
    CASE f.k = "farm_in"   -> s1.farm_id # NULL /\ s1.farm_id \in f.v
      [] f.k = "false"     -> FALSE
      [] f.k = "time_ge"   -> StrLeq(f.v, DateFormatHHmmss(s1.time))
      [] f.k = "time_le"   -> StrLeq(DateFormatHHmmss(s1.time), f.v)
      [] f.k = "farm_eq"   -> SqlEq(s1.farm_id, f.v)
      [] f.k = "camera_eq" -> SqlEq(s1.camera_id, f.v)
      [] f.k = "forward"   -> s1.stage1_should_forward = TRUE

\* Mutant: the filters are joined with OR.
WhereAny(fs, s1) == fs = {} \/ \E f \in fs : FilterHolds(f, s1)

\* WHERE {where_clause}: every filter holds ("1=1" when there is none)
WhereClause(fs, s1) == \A f \in fs : FilterHolds(f, s1)

\* Mutant: the fallback swaps the extension and leaves the store segment.
video_url_extension_only(s1, s2) ==
    IF s2.video_gcs_path # NULL THEN s2.video_gcs_path
    ELSE RegexpReplaceSuffix(s1.trigger_frame_uri, ".jpg", ".mp4")

\* The CASE expression video_url_derived
video_url_derived(s1, s2) ==
    IF s2.video_gcs_path # NULL THEN s2.video_gcs_path
    ELSE RegexpReplaceSuffix(
             RegexpReplaceLiteral(s1.trigger_frame_uri, "frames-to-analyze",
                                  "video-to-analyze"),
             ".jpg", ".mp4")

\* One row of the final SELECT
LinkedRow(s1, s2) ==
    [s1 |-> s1, s2 |-> s2, video_url_derived |-> video_url_derived(s1, s2)]

\* Mutant: an inner join, which drops the Stage 1 rows without a match.
JoinedRowsInner(t1, t2, a, mapping) ==
    LET left  == {Stage1Data[r] : r \in {x \in t1 : x.day = a.date}}
        right == {Stage2Data[r] : r \in {x \in t2 : InStage2Window(x.day, a.date)}}
        fs    == Filters(a, mapping)
        joined ==
            UNION { {LinkedRow(s1, s2) : s2 \in {x \in right : JoinOn(s1, x)}}
                    : s1 \in left }
    IN  {row \in joined : WhereClause(fs, row.s1)}

\* Mutant: of several matches the join keeps one.
JoinedRowsPickOne(t1, t2, a, mapping) ==
    LET left  == {Stage1Data[r] : r \in {x \in t1 : x.day = a.date}}
        right == {Stage2Data[r] : r \in {x \in t2 : InStage2Window(x.day, a.date)}}
        fs    == Filters(a, mapping)
        joined ==
            { LET ms == {s2 \in right : JoinOn(s1, s2)}
              IN  IF ms = {} THEN LinkedRow(s1, NoStage2)
                  ELSE LinkedRow(s1, CHOOSE s2 \in ms : TRUE)
              : s1 \in left }
    IN  {row \in joined : WhereClause(fs, row.s1)}

\* FROM stage1_data s1 LEFT JOIN stage2_data s2 ON ... WHERE ...
JoinedRows(t1, t2, a, mapping) ==
    LET left  == {Stage1Data[r] : r \in {x \in t1 : x.day = a.date}}
        right == {Stage2Data[r] : r \in {x \in t2 : InStage2Window(x.day, a.date)}}
        fs    == Filters(a, mapping)
        joined ==
            UNION { LET ms == {s2 \in right : JoinOn(s1, s2)}
                    IN  IF ms = {} THEN {LinkedRow(s1, NoStage2)}
                        ELSE {LinkedRow(s1, s2) : s2 \in ms}
                    : s1 \in left }
    IN  {row \in joined : WhereClause(fs, row.s1)}

\* stage1_timestamp as a number of seconds, for ORDER BY
Seconds(s1) == ((s1.day * 24 + s1.time[1]) * 60 + s1.time[2]) * 60 + s1.time[3]

\* ORDER BY s1.stage1_timestamp DESC: every order of the rows that is descending
\* (rows of equal timestamp come in any order)
RECURSIVE Orderings(_)
Orderings(S) ==
    IF S = {} THEN {<< >>}
    ELSE LET top == {r \in S : \A x \in S : Seconds(x.s1) <= Seconds(r.s1)}
         IN  UNION { {<<r>> \o t : t \in Orderings(S \ {r})} : r \in top }

Prefix(q, n) == SubSeq(q, 1, IF n < Len(q) THEN n ELSE Len(q))

\* Mutant: LIMIT cuts the rows before they are ordered.
LimitThenOrder(S, limit) ==
    UNION { Orderings(T) :
            T \in {X \in SUBSET S :
                      Cardinality(X) = (IF limit < Cardinality(S) THEN limit
                                        ELSE Cardinality(S))} }

\* ORDER BY ... DESC LIMIT {limit}: the frames the query may return
OrderLimit(S, limit) == {Prefix(q, limit) : q \in Orderings(S)}

\* The frames query_stage1_stage2_linked may return when the query executes
LinkedQuery(t1, t2, a, mapping) ==
    OrderLimit(JoinedRows(t1, t2, a, mapping), a.limit)

\* The rows of SELECT DISTINCT col ... ORDER BY col: the ids in ascending order
RECURSIVE OrderBy(_)
OrderBy(S) ==
    IF S = {} THEN << >>
    ELSE LET m == CHOOSE x \in S : \A y \in S : StrLeq(x, y)
         IN  <<m>> \o OrderBy(S \ {m})

\* Every order in which a Python set may be listed
RECURSIVE ListsOf(_)
ListsOf(S) ==
    IF S = {} THEN {<< >>}
    ELSE UNION { {<<x>> \o t : t \in ListsOf(S \ {x})} : x \in S }

\* Mutant: the entries are left in the order of the query.
Unsorted(entries) == entries

\* entries.sort(key=lambda x: x[0]) / sorted(entries, key=lambda x: x[0]): a stable
\* sort of (display_name, id) pairs by display name
RECURSIVE SortByName(_)
SortByName(entries) ==
    IF entries = << >> THEN << >>
    ELSE LET n     == Len(entries)
             front == SortByName(SubSeq(entries, 1, n - 1))
             e     == entries[n]
             k     == Cardinality({i \in 1..Len(front) : StrLeq(front[i][1], e[1])})
         IN  SubSeq(front, 1, k) \o <<e>> \o SubSeq(front, k + 1, Len(front))

\* tenant_id[1] if isinstance(tenant_id, tuple) else tenant_id: an argument is a
\* tuple <<name, id>> of a dropdown or a plain value, held as <<value>>
ActualId(arg) == IF Len(arg) = 2 THEN arg[2] ELSE arg[1]

\* The farm ids the farm and tenant lists start from
FarmIdsOn(t1, date) ==
    OrderBy({r.farm_id : r \in {x \in t1 : x.day = date /\ x.farm_id # NULL}})

\* execute_query of get_available_tenants
TenantChoices(t1, date, fmap) ==
    LET ids == FarmIdsOn(t1, date)
        tenant_set ==
            { <<fmap[ids[i]].tenant_name, fmap[ids[i]].tenant_id>> :
                i \in {j \in 1..Len(ids) :
                          ids[j] \in DOMAIN fmap /\ Truthy(fmap[ids[j]].tenant_id)} }
    IN  { <<AllSentinel>> \o SortByName(q) : q \in ListsOf(tenant_set) }

\* The farms list before it is sorted: (farm_name, farm_id) of the farms kept
RECURSIVE FarmEntries(_, _, _)
FarmEntries(ids, tenant, fmap) ==
    IF ids = << >> THEN << >>
    ELSE LET farm_id == Head(ids)
             known   == farm_id \in DOMAIN fmap
             name    == IF known THEN fmap[farm_id].name ELSE farm_id
             skip    == /\ Truthy(tenant) /\ tenant # "All"
                        /\ (~known \/ fmap[farm_id].tenant_id # tenant)
         IN  (IF skip THEN << >> ELSE << <<name, farm_id>> >>)
                 \o FarmEntries(Tail(ids), tenant, fmap)

\* execute_query of get_available_farms
FarmChoices(t1, date, arg, fmap) ==
    { <<AllSentinel>> \o SortByName(FarmEntries(FarmIdsOn(t1, date), ActualId(arg), fmap)) }

\* The cameras list before it is sorted
RECURSIVE CameraEntries(_, _)
CameraEntries(ids, cmap) ==
    IF ids = << >> THEN << >>
    ELSE LET camera_id == Head(ids)
             name == IF camera_id \in DOMAIN cmap THEN cmap[camera_id].name
                     ELSE camera_id
         IN  << <<name, camera_id>> >> \o CameraEntries(Tail(ids), cmap)

\* execute_query of get_available_cameras, with its farm_filter
CameraChoices(t1, date, arg, cmap) ==
    LET farm == ActualId(arg)
        ids  == OrderBy({r.camera_id : r \in
                    {x \in t1 : /\ x.day = date
                                /\ x.camera_id # NULL
                                /\ (Truthy(farm) /\ farm # "All")
                                       => SqlEq(x.farm_id, farm)}})
    IN  { <<AllSentinel>> \o SortByName(CameraEntries(ids, cmap)) }

\* The lists a get_available_* call may return when its query executes
AvailableChoices(c, t1, fmap, cmap) ==
    CASE c.op = "get_available_tenants" -> TenantChoices(t1, c.date, fmap)
      [] c.op = "get_available_farms"   -> FarmChoices(t1, c.date, c.arg, fmap)
      [] c.op = "get_available_cameras" -> CameraChoices(t1, c.date, c.arg, cmap)

NoListCall == [op |-> "", date |-> 0, arg |-> <<None>>]

ListCall(o, date, arg) == [op |-> o, date |-> date, arg |-> arg]

\* The list calls explored
ListCatalogue ==
    { ListCall("get_available_tenants", 10, <<None>>),
      ListCall("get_available_farms", 10, <<None>>),
      ListCall("get_available_farms", 10, <<"tenant_1">>),
      ListCall("get_available_farms", 10, <<"Alpha Farms", "tenant_2">>),
      ListCall("get_available_cameras", 10, <<None>>),
      ListCall("get_available_cameras", 10, <<"All">>),
      ListCall("get_available_cameras", 10, <<"Willow Farm", "farm_a">>) }

NoArgs ==
    [date |-> 0, start_time |-> None, end_time |-> None, tenant_id |-> None,
     farm_id |-> None, camera_id |-> None, should_forward_only |-> FALSE,
     limit |-> 0]

Query(date, st, et, tenant, farm, camera, fwd, limit) ==
    [date |-> date, start_time |-> st, end_time |-> et, tenant_id |-> tenant,
     farm_id |-> farm, camera_id |-> camera, should_forward_only |-> fwd,
     limit |-> limit]

\* The calls explored: the date of the catalogue, each filter alone and some
\* together, the default limit of 50 and a small limit that cuts the rows.
QueryCatalogue ==
    { Query(10, None, None, None, None, None, FALSE, 50),
      Query(10, "", "", "All", "All", "All", FALSE, 50),
      Query(10, None, None, None, None, None, FALSE, 2),
      Query(10, None, None, "tenant_1", None, None, FALSE, 50),
      Query(10, None, None, "tenant_9", None, None, FALSE, 50),
      Query(10, None, None, None, "farm_a", None, FALSE, 50),
      Query(10, None, None, None, None, "cam_1", FALSE, 50),
      Query(10, None, None, None, None, None, TRUE, 50),
      Query(10, "09:00", "08:15", None, None, None, FALSE, 50),
      Query(10, "08:15", "23:59", None, None, None, FALSE, 50),
      Query(10, "08:15:30", "08:15:30", None, None, None, FALSE, 50),
      Query(10, "08:15", None, "tenant_1", "farm_a", "cam_1", TRUE, 2) }

InitLink ==
    /\ stage1_table = {}
    /\ stage2_table = {}
    /\ loaded = FALSE
    /\ farm_mapping = EmptyMapping
    /\ args = NoArgs
    /\ rows = EmptyFrame
    /\ failed = FALSE
    /\ phase = "writing"
    /\ camera_mapping = EmptyCameraMapping
    /\ list_call = NoListCall
    /\ choices = << >>
    /\ tenant_mapping = EmptyTenantMapping
    /\ load_runs = 0
    /\ load_failed = FALSE
    /\ reloads = 0
    /\ mapping_out = NoMappingCall

\* The upstream pipeline appends a Stage 1 row
AppendStage1(r) ==
    /\ phase = "writing"
    /\ r \notin stage1_table
    /\ Cardinality(stage1_table) < MaxStage1
    /\ stage1_table' = stage1_table \cup {r}
    /\ UNCHANGED <<stage2_table, loaded, farm_mapping, args, rows, failed, phase>>
    /\ UNCHANGED varsList
    /\ UNCHANGED varsMap
    /\ UNCHANGED OutsideLink

\* The upstream pipeline appends a Stage 2 row
AppendStage2(r) ==
    /\ phase = "writing"
    /\ r \notin stage2_table
    /\ Cardinality(stage2_table) < MaxStage2
    /\ stage2_table' = stage2_table \cup {r}
    /\ UNCHANGED <<stage1_table, loaded, farm_mapping, args, rows, failed, phase>>
    /\ UNCHANGED varsList
    /\ UNCHANGED varsMap
    /\ UNCHANGED OutsideLink

\* DatabricksMappingService.load(), reached from get_camera_mapping() and
\* get_farm_mapping() at the head of run_query and of the list operations: the
\* tables are read once, tenants, farms, then cameras; on an error the mappings
\* not yet read stay empty and the service still counts as loaded.
MappingLoad ==
    /\ phase = "writing"
    /\ ~loaded
    /\ loaded' = TRUE
    /\ \E read \in {"none", "farms", "all"} :
         /\ farm_mapping' = IF read = "none" THEN EmptyMapping ELSE LoadedFarmMapping
         /\ camera_mapping' = IF read = "all" THEN LoadedCameraMapping
                              ELSE EmptyCameraMapping
         /\ tenant_mapping' = IF read = "none" THEN EmptyTenantMapping
                              ELSE LoadedTenantMapping
         /\ load_failed' = (read # "all")
    /\ load_runs' = load_runs + 1
    /\ UNCHANGED <<stage1_table, stage2_table, args, rows, failed, phase>>
    /\ UNCHANGED <<list_call, choices, reloads, mapping_out>>
    /\ UNCHANGED OutsideLink

\* query_stage1_stage2_linked(a), called by run_query once the mappings are
\* loaded: the query is executed; when _execute_with_retry raises, the frame
\* returned is empty.
RunLinked(a) ==
    /\ phase = "writing"
    /\ loaded
    /\ args' = a
    /\ phase' = "answered"
    /\ \/ /\ failed' = FALSE
          /\ rows' \in LinkedQuery(stage1_table, stage2_table, a, farm_mapping)
       \/ /\ failed' = TRUE
          /\ rows' = FailureValue("query_stage1_stage2_linked")
    /\ UNCHANGED <<stage1_table, stage2_table, loaded, farm_mapping>>
    /\ UNCHANGED varsList
    /\ UNCHANGED varsMap
    /\ UNCHANGED OutsideLink

\* get_available_tenants / get_available_farms / get_available_cameras, called by
\* load_filters and the dropdown handlers: the list execute_query builds, or
\* [("All", "All")] when _execute_with_retry raises.
GetAvailable(c) ==
    /\ phase = "writing"
    /\ loaded
    /\ list_call' = c
    /\ phase' = "listed"
    /\ \/ choices' \in AvailableChoices(c, stage1_table, farm_mapping, camera_mapping)
       \/ choices' = FailureValue(c.op)
    /\ UNCHANGED <<stage1_table, stage2_table, loaded, farm_mapping, args, rows,
                   failed, camera_mapping>>
    /\ UNCHANGED varsMap
    /\ UNCHANGED OutsideLink

NextLink ==
    \/ \E r \in Stage1Catalogue : AppendStage1(r)
    \/ \E r \in Stage2Catalogue : AppendStage2(r)
    \/ MappingLoad
    \/ \E a \in QueryCatalogue : RunLinked(a)

\* The dropdown lists over the Stage 1 rows the pipeline has written
NextLists ==
    \/ \E r \in Stage1Catalogue : AppendStage1(r)
    \/ MappingLoad
    \/ \E c \in ListCatalogue : GetAvailable(c)

(***************************************************************************)
(* Part IV - the key extraction of the two sides of the join, applied to   *)
(* one path at a time.                                                     *)
(***************************************************************************)

\* A well-formed block id followed by _ and a timestamp
KeyCores ==
    {"042_0000015_2026-01-21T08:15:30", "001_0000000_1999-12-31T23:59:59"}

\* Texts before and after the key in a path
PathPrefixes ==
    {"", "/", "gs://b/frames-to-analyze/x/", "x/", "clip_",
     "/run_2026-01-20T00:00:00/", "/007_0000001_a/"}

PathSuffixes == {"", ".jpg", ".mp4", "_part2.jpg", "_2027-01-01T00:00:00.jpg"}

\* Directories of trigger frames and base names of files
DirPrefixes ==
    {"", "/data", "gs://b/frames-to-analyze/x", "gs://b/run_2026-01-20T00:00:00",
     "gs://b/007_0000001_a"}

BaseNames ==
    {"042_0000015_2026-01-21T08:15:30", "frame", "", "042_0000015_clip",
     "cam_042_0000015_2026-01-21T08:15:30", "042_0000015",
     "42_0000015_2026-01-21T08:15:30", "042_0000015_2026-01-21T08:15"}

\* No key extracted yet
NoKey == [block_id |-> None, timestamp_key |-> None]

NoInput == [form |-> "", prefix |-> "", core |-> "", suffix |-> ""]

\* No path is under extraction
KeysIdle ==
    /\ key_input = NoInput
    /\ stage1_text = ""
    /\ stage2_text = ""
    /\ stage1_key = NoKey
    /\ stage2_key = NoKey

\* One path prefix + key + suffix given to both sides, or a frame path
\* dir/B.jpg for Stage 1 with the file name B.mp4 for Stage 2
InitKeys ==
    /\ \/ \E p \in PathPrefixes, c \in KeyCores, x \in PathSuffixes :
            /\ key_input = [form |-> "path", prefix |-> p, core |-> c, suffix |-> x]
            /\ stage1_text = p \o c \o x
            /\ stage2_text = p \o c \o x
       \/ \E d \in DirPrefixes, b \in BaseNames :
            /\ key_input = [form |-> "pair", prefix |-> d, core |-> b, suffix |-> ""]
            /\ stage1_text = d \o "/" \o b \o ".jpg"
            /\ stage2_text = b \o ".mp4"
    /\ stage1_key = NoKey
    /\ stage2_key = NoKey

\* The two REGEXP_EXTRACT columns of stage1_data
ExtractStage1Key ==
    /\ key_input.form # ""
    /\ stage1_key = NoKey
    /\ stage1_key' = [block_id      |-> stage1_blk_file(stage1_text),
                      timestamp_key |-> frame_timestamp_key(stage1_text)]
    /\ UNCHANGED <<key_input, stage1_text, stage2_text, stage2_key>>
    /\ UNCHANGED OutsideKeys

\* The two REGEXP_EXTRACT columns of stage2_data
ExtractStage2Key ==
    /\ key_input.form # ""
    /\ stage2_key = NoKey
    /\ stage2_key' = [block_id      |-> stage2_blk_file(stage2_text),
                      timestamp_key |-> video_timestamp_key(stage2_text)]
    /\ UNCHANGED <<key_input, stage1_text, stage2_text, stage1_key>>
    /\ UNCHANGED OutsideKeys

NextKeys ==
    \/ ExtractStage1Key
    \/ ExtractStage2Key

(***************************************************************************)
(* Part V - DatabricksMappingService: load(), reload() and the getters.    *)
(***************************************************************************)

\* Bound of the exploration
MaxReloads == 2

\* Where a run of load() can raise: get_databricks_connection(), one of the three
\* cursor.execute()/fetchall(), conn.close(); "none" when it raises nowhere.
LoadSteps == {"connect", "tenant_map", "farm_map", "farm_camera_map", "close", "none"}

\* A run of load() past its  if self._loaded  test: the tables are read in the
\* order tenants, farms, cameras into local dicts; the except clause prints and
\* goes on; the dicts, filled as far as the run got, are stored and _loaded is set.
Load(fail) ==
    /\ tenant_mapping' = IF fail \in {"connect", "tenant_map"}
                         THEN EmptyTenantMapping ELSE LoadedTenantMapping
    /\ farm_mapping' = IF fail \in {"connect", "tenant_map", "farm_map"}
                       THEN EmptyMapping ELSE LoadedFarmMapping
    /\ camera_mapping' = IF fail \in {"close", "none"}
                         THEN LoadedCameraMapping ELSE EmptyCameraMapping
    /\ load_failed' = (fail # "none")
    /\ loaded' = TRUE

\* Mutant: load() without its  if self._loaded  test.
LoadAlways ==
    /\ \E fail \in LoadSteps : Load(fail)
    /\ load_runs' = load_runs + 1

\* if not self._loaded: self.load()
LoadIfNeeded ==
    IF loaded
    THEN UNCHANGED <<tenant_mapping, farm_mapping, camera_mapping, load_failed,
                     loaded, load_runs>>
    ELSE /\ \E fail \in LoadSteps : Load(fail)
         /\ load_runs' = load_runs + 1

MappingKinds == {"camera", "farm", "tenant"}

\* self._camera_mapping, self._farm_mapping or self._tenant_mapping
MappingOf(which, cameras, farms, tenants) ==
    CASE which = "camera" -> cameras
      [] which = "farm" -> farms
      [] which = "tenant" -> tenants

\* get_camera_mapping, get_farm_mapping, get_tenant_mapping
GetMapping(which) ==
    /\ phase = "writing"
    /\ LoadIfNeeded
    /\ mapping_out' = [op |-> "get_mapping", arg |-> which,
                       value |-> MappingOf(which, camera_mapping', farm_mapping',
                                           tenant_mapping')]
    /\ UNCHANGED <<stage1_table, stage2_table, args, rows, failed, phase>>
    /\ UNCHANGED <<list_call, choices, reloads>>
    /\ UNCHANGED OutsideMap

\* The ids the handlers ask a display name for: one of each kind with a row in
\* its mapping table and one without
DisplayIds ==
    { <<"camera", "cam_1">>, <<"camera", "cam_3">>, <<"farm", "farm_a">>,
      <<"farm", "farm_z">>, <<"tenant", "tenant_1">>, <<"tenant", "tenant_9">> }

\* get_camera_display_name, get_farm_display_name, get_tenant_display_name:
\* the name in the mapping the getter returns, else the id itself
GetDisplayName(which, id) ==
    /\ phase = "writing"
    /\ LoadIfNeeded
    /\ LET mapping == MappingOf(which, camera_mapping', farm_mapping', tenant_mapping')
       IN  mapping_out' = [op |-> "get_display_name", arg |-> which,
                           value |-> IF id \in DOMAIN mapping THEN mapping[id].name
                                     ELSE id]
    /\ UNCHANGED <<stage1_table, stage2_table, args, rows, failed, phase>>
    /\ UNCHANGED <<list_call, choices, reloads>>
    /\ UNCHANGED OutsideMap

\* reload():  self._loaded = False;  return self.load()
Reload ==
    /\ phase = "writing"
    /\ reloads < MaxReloads
    /\ reloads' = reloads + 1
    /\ \E fail \in LoadSteps : Load(fail)
    /\ load_runs' = 1
    /\ mapping_out' = [op |-> "reload", arg |-> "",
                       value |-> <<camera_mapping', farm_mapping', tenant_mapping'>>]
    /\ UNCHANGED <<stage1_table, stage2_table, args, rows, failed, phase>>
    /\ UNCHANGED <<list_call, choices>>
    /\ UNCHANGED OutsideMap

NextMap ==
    \/ \E which \in MappingKinds : GetMapping(which)
    \/ \E d \in DisplayIds : GetDisplayName(d[1], d[2])
    \/ Reload

(***************************************************************************)
(* Part VI - temporary files: TempFileManager (utils/cleanup.py).  A path  *)
(* is a number; os.unlink of a file that exists is taken to succeed.       *)
(***************************************************************************)

\* Bounds of the exploration
MaxTracks == 4

MaxBound == 2

\* The paths callers hand to track_video / track_gif
FilePaths == 1..3

\* Python's  l[:stop]  and  l[start:]  for any integer: a negative index counts
\* from the end, and both are clipped to the list ( -0 is 0 ).
PyIndex(l, i) ==
    IF i < 0 THEN (IF Len(l) + i < 0 THEN 0 ELSE Len(l) + i)
    ELSE (IF i > Len(l) THEN Len(l) ELSE i)

SliceTo(l, stop) == SubSeq(l, 1, PyIndex(l, stop))

SliceFrom(l, start) == SubSeq(l, PyIndex(l, start) + 1, Len(l))

Range(l) == {l[i] : i \in 1..Len(l)}

\* track_video / track_gif on one list: append, then when the list is longer
\* than the bound unlink  files[:-bound]  and keep  files[-bound:]
track(files, bound, filepath) ==
    LET appended == Append(files, filepath)
    IN  IF Len(appended) > bound
        THEN [files_to_remove |-> SliceTo(appended, -bound),
              kept |-> SliceFrom(appended, -bound)]
        ELSE [files_to_remove |-> << >>, kept |-> appended]

NoFiles == [video |-> << >>, gif |-> << >>]

\* None, where a path is expected
NoPath == 0

NoMediaCall == [op |-> "none", created |-> {}, returned |-> NoPath]

Tracked(kind) == Len(tracked_log[kind])

\* TempFileManager(max_videos, max_gifs) just constructed, nothing on disk
InitFiles ==
    /\ max_videos \in 0..MaxBound
    /\ max_gifs \in 0..MaxBound
    /\ temp_video_files = << >>
    /\ temp_gif_files = << >>
    /\ disk = {}
    /\ tracked_log = NoFiles
    /\ evicted = NoFiles
    /\ next_file = 0
    /\ media_out = NoMediaCall

\* The module-level instance before any handler ran
FilesIdle ==
    /\ max_videos = MaxBound
    /\ max_gifs = MaxBound
    /\ temp_video_files = << >>
    /\ temp_gif_files = << >>
    /\ disk = {}
    /\ tracked_log = NoFiles
    /\ evicted = NoFiles
    /\ next_file = 0
    /\ media_out = NoMediaCall

\* track_video(filepath), the file having been written by the caller
TrackVideo(filepath) ==
    /\ Tracked("video") + Tracked("gif") < MaxTracks
    /\ LET t == track(temp_video_files, max_videos, filepath)
       IN  /\ temp_video_files' = t.kept
           /\ disk' = (disk \cup {filepath}) \ Range(t.files_to_remove)
           /\ evicted' = [evicted EXCEPT !.video = @ \o t.files_to_remove]
    /\ tracked_log' = [tracked_log EXCEPT !.video = Append(@, filepath)]
    /\ UNCHANGED <<max_videos, max_gifs, temp_gif_files, next_file, media_out>>
    /\ UNCHANGED OutsideFiles

\* track_gif(filepath), the file having been written by the caller
TrackGif(filepath) ==
    /\ Tracked("video") + Tracked("gif") < MaxTracks
    /\ LET t == track(temp_gif_files, max_gifs, filepath)
       IN  /\ temp_gif_files' = t.kept
           /\ disk' = (disk \cup {filepath}) \ Range(t.files_to_remove)
           /\ evicted' = [evicted EXCEPT !.gif = @ \o t.files_to_remove]
    /\ tracked_log' = [tracked_log EXCEPT !.gif = Append(@, filepath)]
    /\ UNCHANGED <<max_videos, max_gifs, temp_video_files, next_file, media_out>>
    /\ UNCHANGED OutsideFiles

NextFiles ==
    \/ \E f \in FilePaths : TrackVideo(f)
    \/ \E f \in FilePaths : TrackGif(f)

(***************************************************************************)
(* The media service (services/media_service.py) on the temporary files.   *)
(* The files are handled as one record so that a handler can make several  *)
(* media calls in one step.                                                *)
(***************************************************************************)

MaxFiles == 6

\* The temporary files as the media service finds them
FilesNow ==
    [videos |-> temp_video_files, gifs |-> temp_gif_files, disk |-> disk,
     log |-> tracked_log, evicted |-> evicted, next |-> next_file]

\* tempfile.NamedTemporaryFile(delete=False): a new file exists under a new name
NamedTemporaryFile(fs) == [fs EXCEPT !.next = @ + 1, !.disk = @ \cup {fs.next + 1}]

\* os.unlink(path)
unlink(fs, path) == [fs EXCEPT !.disk = @ \ {path}]

\* temp_file_manager.track_video(path) on the record
track_video(fs, path) ==
    LET t == track(fs.videos, max_videos, path)
    IN  [fs EXCEPT !.videos = t.kept,
                   !.disk = @ \ Range(t.files_to_remove),
                   !.evicted.video = @ \o t.files_to_remove,
                   !.log.video = Append(@, path)]

\* temp_file_manager.track_gif(path) on the record
track_gif(fs, path) ==
    LET t == track(fs.gifs, max_gifs, path)
    IN  [fs EXCEPT !.gifs = t.kept,
                   !.disk = @ \ Range(t.files_to_remove),
                   !.evicted.gif = @ \o t.files_to_remove,
                   !.log.gif = Append(@, path)]

\* What can happen to one download_video_to_temp call: the URI is refused or
\* the blob is missing or its lookup raises; the download raises; ffmpeg cannot
\* be run; ffmpeg (GPU, then CPU) ends with a non-zero code; ffmpeg succeeds.
VideoOutcomes == {"no_blob", "download_raises", "ffmpeg_raises", "ffmpeg_failed", "ok"}

\* What can happen to one create_animated_gif_from_frames call: no frame could
\* be downloaded; saving the GIF raises; the GIF is written.
GifOutcomes == {"no_frames", "save_raises", "ok"}

\* download_video_to_temp(gcs_uri): the files after the call, the files it
\* created and the path it returns
download_video_to_temp(fs, happens) ==
    LET one == NamedTemporaryFile(fs)
        temp_download == one.next
        two == NamedTemporaryFile(one)
        temp_output == two.next
    IN  CASE happens = "no_blob" ->
               [files |-> fs, created |-> {}, returned |-> NoPath]
          [] happens = "download_raises" ->
               [files |-> one, created |-> {temp_download}, returned |-> NoPath]
          [] happens = "ffmpeg_raises" ->
               [files |-> two, created |-> {temp_download, temp_output},
                returned |-> NoPath]
          [] happens = "ffmpeg_failed" ->
               [files |-> track_video(two, temp_download),
                created |-> {temp_download, temp_output},
                returned |-> temp_download]
          [] OTHER ->
               [files |-> track_video(unlink(two, temp_download), temp_output),
                created |-> {temp_download, temp_output},
                returned |-> temp_output]

\* create_animated_gif_from_frames(frame_uris)
create_animated_gif_from_frames(fs, happens) ==
    LET one == NamedTemporaryFile(fs)
        temp_gif == one.next
    IN  CASE happens = "no_frames" ->
               [files |-> fs, created |-> {}, returned |-> NoPath]
          [] happens = "save_raises" ->
               [files |-> one, created |-> {temp_gif}, returned |-> NoPath]
          [] OTHER ->
               [files |-> track_gif(one, temp_gif), created |-> {temp_gif},
                returned |-> temp_gif]

\* The temporary files become those of the record
FilesBecome(fs) ==
    /\ temp_video_files' = fs.videos
    /\ temp_gif_files' = fs.gifs
    /\ disk' = fs.disk
    /\ tracked_log' = fs.log
    /\ evicted' = fs.evicted
    /\ next_file' = fs.next
    /\ UNCHANGED <<max_videos, max_gifs>>

\* One call of media_service.download_video_to_temp
DownloadVideo(happens) ==
    /\ next_file + 2 <= MaxFiles
    /\ LET r == download_video_to_temp(FilesNow, happens)
       IN  /\ FilesBecome(r.files)
           /\ media_out' = [op |-> "download_video_to_temp", created |-> r.created,
                            returned |-> r.returned]
    /\ UNCHANGED OutsideFiles

\* One call of media_service.create_animated_gif_from_frames
CreateGif(happens) ==
    /\ next_file + 1 <= MaxFiles
    /\ LET r == create_animated_gif_from_frames(FilesNow, happens)
       IN  /\ FilesBecome(r.files)
           /\ media_out' = [op |-> "create_animated_gif_from_frames",
                            created |-> r.created, returned |-> r.returned]
    /\ UNCHANGED OutsideFiles

NextMedia ==
    \/ \E o \in VideoOutcomes : DownloadVideo(o)
    \/ \E o \in GifOutcomes : CreateGif(o)

\* The application's manager, whose bounds are at least one
InitApp ==
    /\ max_videos \in 1..MaxBound
    /\ max_gifs \in 1..MaxBound
    /\ temp_video_files = << >>
    /\ temp_gif_files = << >>
    /\ disk = {}
    /\ tracked_log = NoFiles
    /\ evicted = NoFiles
    /\ next_file = 0
    /\ media_out = NoMediaCall

(***************************************************************************)
(* Part VII - the handlers run_query and get_row_details (ui/handlers.py)  *)
(* on app_state (ui/state.py).  A row is what get_row_details does with    *)
(* it; rows are counted from 0 as the select event counts them.            *)
(***************************************************************************)

MaxQueries == 2

MaxSelections == 3

\* A row with frames and a Stage 2 video, a row with frames only, and a row
\* whose details cannot be formatted (the handler's except clause answers)
RowKinds == {"frames_and_video", "frames_only", "broken"}

\* The result sets a query can return; the empty one is also what a failed
\* query returns
ResultSets ==
    {<< >>,
     <<"frames_and_video">>,
     <<"frames_and_video", "frames_and_video">>,
     <<"frames_only", "frames_and_video">>,
     <<"frames_and_video", "broken">>}

\* The row indices a select event can carry
RowIndices == 0..2

\* None as last_selected_row
NoRow == -1

\* row_cache = {}
EmptyCache == [i \in {} |-> NoPath]

NoAnswer == [op |-> "none", from_cache |-> FALSE, row |-> NoRow,
             gif |-> NoPath, video |-> NoPath, details |-> <<0, NoRow>>]

\* The triple (gif_path, video_path, details_text); the details text is stood
\* for by the result set and the row it was built from
Triple(gif, video, gen, row) == [gif |-> gif, video |-> video, details |-> <<gen, row>>]

Answer(handler, hit, row, t) ==
    [op |-> handler, from_cache |-> hit, row |-> row,
     gif |-> t.gif, video |-> t.video, details |-> t.details]

\* (None, None, "No data available") and (None, None, "Error loading details: ...")
NoDetails == Triple(NoPath, NoPath, 0, NoRow)

\* app_state = AppState()
InitUi ==
    /\ query_results = << >>
    /\ row_cache = EmptyCache
    /\ last_selected_row = NoRow
    /\ generation = 0
    /\ selections = 0
    /\ ui_out = NoAnswer

\* row_cache[row_idx] = result
CacheWith(cache, row_idx, triple) ==
    [i \in DOMAIN cache \cup {row_idx} |-> IF i = row_idx THEN triple ELSE cache[i]]

\* Mutant: the row cache survives a new result set.
RunQueryKeepCache(df, raises) ==
    /\ generation < MaxQueries
    /\ IF raises
       THEN UNCHANGED <<query_results, generation, row_cache, last_selected_row>>
       ELSE /\ query_results' = df
            /\ generation' = generation + 1
            /\ UNCHANGED <<row_cache, last_selected_row>>
    /\ ui_out' = Answer("run_query", FALSE, NoRow, NoDetails)
    /\ UNCHANGED <<selections, varsFiles>>
    /\ UNCHANGED OutsideUi

\* run_query(...): an exception before the results are stored changes nothing;
\* otherwise the results are stored, and when they are not empty the row cache
\* is cleared and last_selected_row reset.
RunQuery(df, raises) ==
    /\ generation < MaxQueries
    /\ IF raises
       THEN UNCHANGED <<query_results, generation, row_cache, last_selected_row>>
       ELSE /\ query_results' = df
            /\ generation' = generation + 1
            /\ IF df = << >>
               THEN UNCHANGED <<row_cache, last_selected_row>>
               ELSE /\ row_cache' = EmptyCache
                    /\ last_selected_row' = NoRow
    /\ ui_out' = Answer("run_query", FALSE, NoRow, NoDetails)
    /\ UNCHANGED <<selections, varsFiles>>
    /\ UNCHANGED OutsideUi

\* The part of get_row_details after the cache test: the row is read and
\* formatted, the GIF is made when the row has frames, the video is downloaded
\* when it has a Stage 2 video, and the triple is cached.
LoadDetails(row_idx, gif_happens, video_happens) ==
    /\ last_selected_row' = row_idx
    /\ IF row_idx >= Len(query_results) \/ query_results[row_idx + 1] = "broken"
       THEN /\ ui_out' = Answer("get_row_details", FALSE, row_idx, NoDetails)
            /\ UNCHANGED <<row_cache, varsFiles>>
       ELSE LET row == query_results[row_idx + 1]
                g == create_animated_gif_from_frames(FilesNow, gif_happens)
                v == IF row = "frames_and_video"
                     THEN download_video_to_temp(g.files, video_happens)
                     ELSE [files |-> g.files, created |-> {}, returned |-> NoPath]
                triple == Triple(g.returned, v.returned, generation, row_idx)
            IN  /\ next_file + 3 <= MaxFiles
                /\ FilesBecome(v.files)
                /\ media_out' =
                       IF row = "frames_and_video"
                       THEN [op |-> "download_video_to_temp", created |-> v.created,
                             returned |-> v.returned]
                       ELSE [op |-> "create_animated_gif_from_frames",
                             created |-> g.created, returned |-> g.returned]
                /\ row_cache' = CacheWith(row_cache, row_idx, triple)
                /\ ui_out' = Answer("get_row_details", FALSE, row_idx, triple)

\* Mutant: any cached row is answered from the cache.
GetRowDetailsAnyCached(row_idx, gif_happens, video_happens) ==
    /\ selections < MaxSelections
    /\ selections' = selections + 1
    /\ IF query_results = << >>
       THEN /\ ui_out' = Answer("get_row_details", FALSE, NoRow, NoDetails)
            /\ UNCHANGED <<row_cache, last_selected_row, varsFiles>>
       ELSE IF row_idx \in DOMAIN row_cache
            THEN /\ ui_out' = Answer("get_row_details", TRUE, row_idx, row_cache[row_idx])
                 /\ UNCHANGED <<row_cache, last_selected_row, varsFiles>>
            ELSE LoadDetails(row_idx, gif_happens, video_happens)
    /\ UNCHANGED <<query_results, generation>>
    /\ UNCHANGED OutsideUi

\* get_row_details(evt) with evt.index[0] = row_idx
GetRowDetails(row_idx, gif_happens, video_happens) ==
    /\ selections < MaxSelections
    /\ selections' = selections + 1
    /\ IF query_results = << >>
       THEN /\ ui_out' = Answer("get_row_details", FALSE, NoRow, NoDetails)
            /\ UNCHANGED <<row_cache, last_selected_row, varsFiles>>
       ELSE IF row_idx = last_selected_row /\ row_idx \in DOMAIN row_cache
            THEN /\ ui_out' = Answer("get_row_details", TRUE, row_idx, row_cache[row_idx])
                 /\ UNCHANGED <<row_cache, last_selected_row, varsFiles>>
            ELSE LoadDetails(row_idx, gif_happens, video_happens)
    /\ UNCHANGED <<query_results, generation>>
    /\ UNCHANGED OutsideUi

NextUi ==
    \/ \E df \in ResultSets, raises \in BOOLEAN : RunQuery(df, raises)
    \/ \E i \in RowIndices, g \in GifOutcomes, v \in VideoOutcomes :
          GetRowDetails(i, g, v)

(***************************************************************************)
(* Part VIII - the handlers that query (ui/handlers.py) running side by    *)
(* side on the one query_service.  The event queue runs the listeners of   *)
(* different events at the same time and the code holds no lock, so the    *)
(* steps of their _execute_with_retry calls interleave freely.             *)
(***************************************************************************)

MaxRuns == 3

MaxHandles == 3

\* The handlers that call the query service, and the service calls each makes
Handlers == {"load_filters", "update_farms_on_tenant_change",
             "update_cameras_on_farm_change", "run_query"}

ServiceCalls(h) ==
    CASE h = "load_filters" -> 3
      [] h = "update_farms_on_tenant_change" -> 2
      [] OTHER -> 1

\* self._connection is None
NoHandle == 0

\* What one query_func(conn) call can end with
QueryEnds == {"returns", "connection_error", "other_error"}

InitHandlers ==
    /\ shared_connection = NoHandle
    /\ closed_handles = {}
    /\ handles_opened = 0
    /\ handler_pc = [h \in Handlers |-> "Idle"]
    /\ handler_handle = [h \in Handlers |-> NoHandle]
    /\ handler_attempt = [h \in Handlers |-> 0]
    /\ handler_calls = [h \in Handlers |-> 0]
    /\ handler_runs = 0

\* The event of handler h fires: its first service call enters the retry loop
HandlerStart(h) ==
    /\ handler_pc[h] = "Idle"
    /\ handler_runs < MaxRuns
    /\ handler_runs' = handler_runs + 1
    /\ handler_pc' = [handler_pc EXCEPT ![h] = "Connecting"]
    /\ handler_attempt' = [handler_attempt EXCEPT ![h] = 0]
    /\ handler_calls' = [handler_calls EXCEPT ![h] = ServiceCalls(h)]
    /\ UNCHANGED <<shared_connection, closed_handles, handles_opened, handler_handle>>
    /\ UNCHANGED OutsideHandlers

\* self.connection: the shared handle, made first when there is none, is
\* handed to query_func
HandlerConnect(h) ==
    /\ handler_pc[h] = "Connecting"
    /\ IF shared_connection = NoHandle
       THEN /\ handles_opened < MaxHandles
            /\ handles_opened' = handles_opened + 1
            /\ shared_connection' = handles_opened + 1
       ELSE UNCHANGED <<handles_opened, shared_connection>>
    /\ handler_handle' = [handler_handle EXCEPT ![h] = shared_connection']
    /\ handler_pc' = [handler_pc EXCEPT ![h] = "Executing"]
    /\ UNCHANGED <<closed_handles, handler_attempt, handler_calls, handler_runs>>
    /\ UNCHANGED OutsideHandlers

\* The service call of handler h is over (the service method returns the
\* result, or catches the error and returns its default): the next call of the
\* handler starts, or the handler returns.
CallOver(h) ==
    /\ handler_calls' = [handler_calls EXCEPT ![h] = @ - 1]
    /\ handler_attempt' = [handler_attempt EXCEPT ![h] = 0]
    /\ handler_handle' = [handler_handle EXCEPT ![h] = NoHandle]
    /\ handler_pc' = [handler_pc EXCEPT ![h] =
                         IF handler_calls[h] > 1 THEN "Connecting" ELSE "Idle"]

\* query_func(conn) ends: a result is returned; an error that is not of the
\* connection class, or any error on the last attempt, is raised; a
\* connection-class error on the first attempt goes to _reconnect.  A query
\* on a handle that has been closed cannot return a result.
HandlerExecute(h, ends) ==
    /\ handler_pc[h] = "Executing"
    /\ handler_handle[h] \in closed_handles => ends # "returns"
    /\ IF ends = "connection_error" /\ handler_attempt[h] < max_retries - 1
       THEN /\ handler_pc' = [handler_pc EXCEPT ![h] = "Reconnecting"]
            /\ handler_handle' = [handler_handle EXCEPT ![h] = NoHandle]
            /\ UNCHANGED <<handler_attempt, handler_calls>>
       ELSE CallOver(h)
    /\ UNCHANGED <<shared_connection, closed_handles, handles_opened, handler_runs>>
    /\ UNCHANGED OutsideHandlers

\* _reconnect, first half: close() on the shared handle, then _connection = None
HandlerReconnectClose(h) ==
    /\ handler_pc[h] = "Reconnecting"
    /\ closed_handles' = IF shared_connection = NoHandle THEN closed_handles
                          ELSE closed_handles \cup {shared_connection}
    /\ shared_connection' = NoHandle
    /\ handler_pc' = [handler_pc EXCEPT ![h] = "Opening"]
    /\ UNCHANGED <<handles_opened, handler_handle, handler_attempt, handler_calls,
                   handler_runs>>
    /\ UNCHANGED OutsideHandlers

\* _reconnect, second half: the factory returns a handle, which replaces the
\* shared one, and the loop goes to its next attempt; or the factory raises
\* and the call is over.
HandlerReconnectOpen(h, opens) ==
    /\ handler_pc[h] = "Opening"
    /\ IF opens
       THEN /\ handles_opened < MaxHandles
            /\ handles_opened' = handles_opened + 1
            /\ shared_connection' = handles_opened + 1
            /\ handler_attempt' = [handler_attempt EXCEPT ![h] = @ + 1]
            /\ handler_pc' = [handler_pc EXCEPT ![h] = "Connecting"]
            /\ UNCHANGED <<handler_handle, handler_calls>>
       ELSE /\ CallOver(h)
            /\ UNCHANGED <<handles_opened, shared_connection>>
    /\ UNCHANGED <<closed_handles, handler_runs>>
    /\ UNCHANGED OutsideHandlers

NextHandlers ==
    \/ \E h \in Handlers : HandlerStart(h)
    \/ \E h \in Handlers : HandlerConnect(h)
    \/ \E h \in Handlers, ends \in QueryEnds : HandlerExecute(h, ends)
    \/ \E h \in Handlers : HandlerReconnectClose(h)
    \/ \E h \in Handlers, opens \in BOOLEAN : HandlerReconnectOpen(h, opens)

vars == <<varsExec, varsLink, varsList, varsMap, varsFiles, varsUi, varsHandlers, varsKeys>>

Init == InitExec /\ InitLink /\ KeysIdle /\ FilesIdle /\ InitUi /\ InitHandlers

Next == NextExec

Spec == Init /\ [][Next]_vars

\* The variables a step of a call changes: every action of the executor changes
\* one of them.
varsCall == <<pc, connection, attempt, last_error>>

\* The executor when every step of a call that is under way is taken: each
\* execution of the operation, each connection attempt and each close() returns or
\* raises, and the code between them runs on.
Fairness ==
    /\ WF_varsCall(Connect)
    /\ WF_varsCall(Execute)
    /\ WF_varsCall(Classify)
    /\ WF_varsCall(ReconnectClose)
    /\ WF_varsCall(ReconnectOpen)

SpecFair == Init /\ [][Next]_vars /\ Fairness

InitL == InitExec /\ http_path # "" /\ InitLink /\ KeysIdle /\ FilesIdle /\ InitUi /\ InitHandlers

NextL == NextLink

\* The linkage query over the tables the pipeline has written
SpecLink == InitL /\ [][NextL]_vars

\* The dropdown lists of a date
SpecLists == InitL /\ [][NextLists]_vars

\* The mapping service under the calls of the handlers
SpecMap == InitL /\ [][NextMap]_vars

InitK == InitExec /\ http_path # "" /\ InitLink /\ InitKeys /\ FilesIdle /\ InitUi /\ InitHandlers

\* The querying handlers side by side on the shared connection
SpecHandlers == InitL /\ [][NextHandlers]_vars

\* The application at start, its manager of any bound of one or more
InitA == InitExec /\ http_path # "" /\ InitLink /\ KeysIdle /\ InitApp /\ InitUi /\ InitHandlers

\* A TempFileManager of any bound just constructed
InitF == InitExec /\ http_path # "" /\ InitLink /\ KeysIdle /\ InitFiles /\ InitUi /\ InitHandlers

\* The handlers of the results table on app_state and the temporary files
SpecUi == InitA /\ [][NextUi]_vars

\* The media service on the application's temporary files
SpecMedia == InitA /\ [][NextMedia]_vars

\* A TempFileManager of any bound under track_video and track_gif
SpecFiles == InitF /\ [][NextFiles]_vars

NextK == NextKeys

\* The key extraction over a set of paths
SpecKeys == InitK /\ [][NextK]_vars

(***************************************************************************)
(* Properties of the resilient executor                                    *)
(***************************************************************************)

RECURSIVE CountEv(_, _)
CountEv(t, ev) ==
    IF t = << >> THEN 0
    ELSE (IF Head(t).ev = ev THEN 1 ELSE 0) + CountEv(Tail(t), ev)

\* Positions of the executions of query_func in the current call
ExecAt == {i \in 1..Len(trace) : trace[i].ev = "exec"}

FirstExec == trace[CHOOSE i \in ExecAt : \A j \in ExecAt : i <= j]

LastExec == trace[CHOOSE i \in ExecAt : \A j \in ExecAt : j <= i]

\* The call at hand ended with an error leaving _execute_with_retry
Failed == trace # << >> /\ trace[Len(trace)].err # NoError

\* C1: in one call of _execute_with_retry (max_retries = 2) the operation is
\* executed at most twice and _reconnect is entered at most once, whatever the
\* operation, the connection factory and close() raise.
C1_RetryBound ==
    /\ CountEv(trace, "exec") <= 2
    /\ CountEv(trace, "reconnect") <= 1

\* Both executions failed with connection errors, close() raised too.
C1_Witness ==
    /\ pc = "FatalFailure"
    /\ CountEv(trace, "exec") = 2
    /\ CountEv(trace, "reconnect") = 1
    /\ \E i \in 1..Len(trace) : trace[i].ev = "close" /\ trace[i].err # NoError

\* C2: when the first execution raises a connection-class error and the second
\* returns R, _execute_with_retry returns exactly R and exactly one reconnect was
\* performed, between the two executions.
C2_RetryReturnsSecond ==
    (/\ pc = "Success"
     /\ ExecAt # {}
     /\ FirstExec.err # NoError
     /\ is_connection_error(FirstExec.err))
    => /\ CountEv(trace, "exec") = 2
       /\ result = LastExec.val
       /\ CountEv(trace, "reconnect") = 1
       /\ \E i, j, k \in 1..Len(trace) :
            /\ i < j /\ j < k
            /\ trace[i].ev = "exec" /\ trace[j].ev = "reconnect"
            /\ trace[k].ev = "exec"
            /\ trace[k].h # trace[i].h

C2_Witness ==
    /\ pc = "Success"
    /\ CountEv(trace, "exec") = 2
    /\ FirstExec.err.kind = "timeout"
    /\ result = << <<"row1">>, <<"row2">> >>

\* C3 (as stated): when the first execution raises an error that is not
\* connection-class, _execute_with_retry raises that same error with the operation
\* executed once, no reconnect performed and the connection handle unchanged.
C3_Original ==
    (/\ ExecAt # {}
     /\ FirstExec.err # NoError
     /\ ~is_connection_error(FirstExec.err)
     /\ pc # "Handling")
    => /\ pc \in {"FatalFailure", "Idle"}
       /\ last_error = FirstExec.err
       /\ CountEv(trace, "exec") = 1
       /\ CountEv(trace, "reconnect") = 0
       /\ connection = FirstExec.h
       /\ connection \notin closed

\* C3 (amended): when the first execution raises an error that is not
\* connection-class, _execute_with_retry raises that same error with the operation
\* executed once, no reconnect performed after that execution and the handle it
\* ran on still held and not closed; a reconnect can precede the execution, when
\* the lazy creation of the connection failed with a connection-class error.
C3_NonConnectionErrorPropagates ==
    (/\ ExecAt # {}
     /\ FirstExec.err # NoError
     /\ ~is_connection_error(FirstExec.err)
     /\ pc # "Handling")
    => /\ pc \in {"FatalFailure", "Idle"}
       /\ last_error = FirstExec.err
       /\ CountEv(trace, "exec") = 1
       /\ trace[Len(trace)].ev = "exec"
       /\ connection = FirstExec.h
       /\ connection \notin closed

C3_Witness ==
    /\ pc = "FatalFailure"
    /\ ExecAt # {}
    /\ FirstExec.err.kind = "permission"
    /\ connection # 0

\* C4: every query-class failure (malformed SQL, permission denial, missing table,
\* data error) is classified as non-connection-class and never retried, whatever
\* its message; only timeouts, closed sockets, expired or invalid sessions and
\* request errors are classified as connection-class.
C4_OnlyConnectionFailuresRetried ==
    /\ pc = "Reconnecting" => last_error.kind \in ConnectionKinds
    /\ (pc = "Handling" /\ last_error.kind \in QueryKinds)
           => ~is_connection_error(last_error)

\* C5: the four public operations never raise: on every failure the linked query
\* returns the empty frame and a list operation returns a well-formed list.
C5_PublicNeverRaises ==
    /\ ~outcome.raised
    /\ (pc = "Idle" /\ calls > 0) =>
         /\ Failed => outcome.value = FailureValue(op)
         /\ op # "query_stage1_stage2_linked" =>
              /\ Len(outcome.value) >= 1
              /\ \A i \in 1..Len(outcome.value) : Len(outcome.value[i]) = 2

\* Connection errors on both attempts of a list operation.
C5_Witness ==
    /\ pc = "Idle"
    /\ op = "get_available_farms"
    /\ Failed
    /\ CountEv(trace, "exec") = 2
    /\ outcome.value = <<AllSentinel>>

\* C6: when the linked query fails with a configuration or a query error, the
\* caller of run_query gets an empty result set and a status that carries the
\* underlying error message, so a failed query differs from one matching no rows.
C6_FailureStatusDescriptive ==
    (/\ pc = "Idle"
     /\ op = "query_stage1_stage2_linked"
     /\ Failed
     /\ trace[Len(trace)].err.kind \in QueryKinds \cup {"config"})
    => /\ ui.df = EmptyFrame
       /\ Contains(ui.status, trace[Len(trace)].err.msg)
       /\ ui.status # run_query([raised |-> FALSE, error |-> NoError,
                                 value |-> EmptyFrame]).status

(***************************************************************************)
(* Properties of the linkage query (specification SpecLink)                *)
(***************************************************************************)

\* The query was executed and its frame handed back
Answered == phase = "answered" /\ ~failed

\* The rows of the frame, as a set of positions
RowAt == 1..Len(rows)

\* A key component is there: the path held the pattern
HasValue(k) == k # NULL /\ k # ""

\* The Stage 1 events stored for the requested date that pass the active filters
PassingStage1 ==
    LET fs == Filters(args, farm_mapping)
    IN  {s1 \in {Stage1Data[r] : r \in stage1_table} :
            s1.day = args.date /\ WhereClause(fs, s1)}

\* The Stage 2 events the query can pair with s1: those of the search window with
\* an equal camera_id and equal extracted keys
PairedStage2(s1) ==
    {s2 \in {Stage2Data[r] : r \in stage2_table} :
        /\ InStage2Window(s2.day, args.date)
        /\ SqlEq(s1.camera_id, s2.camera_id)
        /\ SqlEq(s1.blk_file, s2.blk_file)
        /\ SqlEq(s1.frame_timestamp_key, s2.video_timestamp_key)}

\* Number of rows the left join owes to s1
RowsOwed(s1) ==
    LET k == Cardinality(PairedStage2(s1)) IN IF k <= 1 THEN 1 ELSE k

RowsOf(s1) == {i \in RowAt : rows[i].s1 = s1}

RECURSIVE SumOwed(_)
SumOwed(S) ==
    IF S = {} THEN 0
    ELSE LET x == CHOOSE y \in S : TRUE IN RowsOwed(x) + SumOwed(S \ {x})

\* C7 (as stated): every Stage 1 event of the requested date that passes the
\* filters has exactly one row when it has zero or one matching Stage 2 event and
\* exactly k rows when it has k > 1; none is missing from the result.
C7_Original ==
    Answered => \A s1 \in PassingStage1 : Cardinality(RowsOf(s1)) = RowsOwed(s1)

\* C7 (amended): the same, for a query that executes without error and whose
\* filtered join has at most  limit  rows.
C7_LeftJoinComplete ==
    Answered =>
        LET passing == PassingStage1
        IN  SumOwed(passing) <= args.limit
            => /\ \A s1 \in passing : Cardinality(RowsOf(s1)) = RowsOwed(s1)
               /\ \A i \in RowAt : rows[i].s1 \in passing

\* An event with two matches beside an event with none, both in the frame.
C7_Witness ==
    /\ Answered
    /\ SumOwed(PassingStage1) <= args.limit
    /\ \E a, b \in PassingStage1 :
         /\ Cardinality(PairedStage2(a)) = 2 /\ Cardinality(RowsOf(a)) = 2
         /\ PairedStage2(b) = {} /\ Cardinality(RowsOf(b)) = 1

\* C8: a result row carries Stage 2 fields only if that Stage 2 event has the same
\* camera_id, the same block_id and the same timestamp_key as the row's Stage 1
\* event, by exact string equality; never a Stage 2 event of another camera.
C8_LinkedOnlyOnEqualKey ==
    \A i \in RowAt :
        rows[i].s2 # NoStage2 =>
            /\ rows[i].s1.camera_id = rows[i].s2.camera_id
            /\ HasValue(rows[i].s1.blk_file)
            /\ rows[i].s1.blk_file = rows[i].s2.blk_file
            /\ HasValue(rows[i].s1.frame_timestamp_key)
            /\ rows[i].s1.frame_timestamp_key = rows[i].s2.video_timestamp_key

\* What holds of every linked row: the three extracted columns are equal strings,
\* so the two events are of one camera.
LinkedRowsEqualColumns ==
    \A i \in RowAt :
        rows[i].s2 # NoStage2 =>
            /\ rows[i].s1.camera_id = rows[i].s2.camera_id
            /\ rows[i].s1.blk_file = rows[i].s2.blk_file
            /\ rows[i].s1.frame_timestamp_key = rows[i].s2.video_timestamp_key

\* C9: a Stage 1 event whose trigger-frame path yields no block_id or no
\* timestamp_key is never linked to a Stage 2 event, whatever Stage 2 events its
\* camera has, and still appears as one unmatched row.
C9_UndefinedKeyNeverLinked ==
    /\ \A i \in RowAt :
         (~HasValue(rows[i].s1.blk_file) \/ ~HasValue(rows[i].s1.frame_timestamp_key))
             => rows[i].s2 = NoStage2
    /\ (Answered /\ SumOwed(PassingStage1) <= args.limit) =>
         \A s1 \in PassingStage1 :
             (~HasValue(s1.blk_file) \/ ~HasValue(s1.frame_timestamp_key))
                 => Cardinality(RowsOf(s1)) = 1

\* The farms the mapping assigns to tenant t
FarmsOfTenant(t) == {f \in DOMAIN farm_mapping : farm_mapping[f].tenant_id = t}

\* C10: with a tenant filter T other than 'All', every row has a farm_id among the
\* farms the mapping assigns to T; when there is none (unknown tenant, no mapping
\* loaded) the result has zero rows.
C10_TenantIsolation ==
    (phase = "answered" /\ Truthy(args.tenant_id) /\ args.tenant_id # "All")
    => /\ \A i \in RowAt : rows[i].s1.farm_id \in FarmsOfTenant(args.tenant_id)
       /\ FarmsOfTenant(args.tenant_id) = {} => rows = EmptyFrame

\* A tenant filter while the mapping is empty, over a table that holds rows of
\* the date: the query ran and gave nothing.
C10_Witness ==
    /\ Answered
    /\ args.tenant_id = "tenant_1"
    /\ farm_mapping = EmptyMapping
    /\ \E r \in stage1_table : r.day = args.date /\ r.farm_id = "farm_a"
    /\ rows = EmptyFrame

\* The Stage 2 events stored that agree with s1 on camera_id and on both extracted
\* columns, whatever their date
SameKeyStage2(s1) ==
    {s2 \in {Stage2Data[r] : r \in stage2_table} :
        /\ SqlEq(s1.camera_id, s2.camera_id)
        /\ SqlEq(s1.blk_file, s2.blk_file)
        /\ SqlEq(s1.frame_timestamp_key, s2.video_timestamp_key)}

\* C11: for a requested date D, a Stage 2 event dated D-2 .. D+2 with the keys of
\* a Stage 1 event of the result is matched to it (a row carries both, when the
\* limit cuts nothing), and no row carries a Stage 2 event dated D+3 or later or
\* D-3 or earlier, even one whose camera_id and keys equal the Stage 1 event's.
C11_Stage2Window ==
    /\ \A i \in RowAt :
         rows[i].s2 # NoStage2 =>
             /\ rows[i].s2.day >= args.date - 2
             /\ rows[i].s2.day <= args.date + 2
    /\ Answered =>
         LET passing == PassingStage1
         IN  SumOwed(passing) <= args.limit =>
                 \A s1 \in passing : \A s2 \in SameKeyStage2(s1) :
                     (s2.day >= args.date - 2 /\ s2.day <= args.date + 2)
                         => \E i \in RowAt : rows[i].s1 = s1 /\ rows[i].s2 = s2

\* A Stage 2 event dated D+2 is linked while one dated D+3 (or D-3), with the
\* camera and keys of a Stage 1 event of the result, is left out.
C11_Witness ==
    /\ Answered
    /\ \E i \in RowAt :
         /\ rows[i].s2 # NoStage2
         /\ rows[i].s2.day \in {args.date + 2, args.date - 2}
    /\ \E i \in RowAt :
         /\ rows[i].s2 = NoStage2
         /\ \E s2 \in SameKeyStage2(rows[i].s1) :
              s2.day \in {args.date + 3, args.date - 3}

\* v is uri with its segment frames-to-analyze replaced by video-to-analyze and
\* its trailing .jpg replaced by .mp4
IsSubstituted(uri, v) ==
    LET n == Len(uri)
    IN  /\ n >= 21
        /\ SubSeq(uri, n - 3, n) = ".jpg"
        /\ \E a \in 0..(n - 21) :
             /\ SubSeq(uri, a + 1, a + 17) = "frames-to-analyze"
             /\ v = SubSeq(uri, 1, a) \o "video-to-analyze"
                         \o SubSeq(uri, a + 18, n - 4) \o ".mp4"

\* The fallback the row of s1 is to carry
IsFallback(s1, v) ==
    IF s1.trigger_frame_uri = NULL THEN v = NULL
    ELSE IsSubstituted(s1.trigger_frame_uri, v)

\* Every Stage 2 column of row i is NULL
Stage2FieldsNull(i) ==
    /\ rows[i].s2.stage2_inference_id = NULL
    /\ rows[i].s2.camera_id = NULL
    /\ rows[i].s2.video_gcs_path = NULL
    /\ rows[i].s2.video_filename = NULL
    /\ rows[i].s2.blk_file = NULL
    /\ rows[i].s2.video_timestamp_key = NULL

\* Row i has a Stage 2 event of the table on its right side
Matched(i) == \E r \in stage2_table : rows[i].s2 = Stage2Data[r]

Given(x) == x # None /\ x # ""

Restricts(x) == Given(x) /\ x # "All"

\* The number a digit stands for, and the seconds since midnight of HH:MM[:SS]
\* (fill: the seconds of a bound given as HH:MM)
DigitVal(c) == (CHOOSE k \in 1..10 : Digits[k] = c) - 1

TwoDigitVal(str, i) == DigitVal(Char(str, i)) * 10 + DigitVal(Char(str, i + 1))

ClockSeconds(str, fill) ==
    TwoDigitVal(str, 1) * 3600 + TwoDigitVal(str, 4) * 60
        + (IF Len(str) = 8 THEN TwoDigitVal(str, 7) ELSE fill)

SecondsOfDay(s1) == s1.time[1] * 3600 + s1.time[2] * 60 + s1.time[3]

\* s1 satisfies every active filter of the call a
Satisfies(a, s1) ==
    /\ Restricts(a.tenant_id) => s1.farm_id \in FarmsOfTenant(a.tenant_id)
    /\ Restricts(a.farm_id) => s1.farm_id = a.farm_id
    /\ Restricts(a.camera_id) => s1.camera_id = a.camera_id
    /\ Given(a.start_time) => SecondsOfDay(s1) >= ClockSeconds(a.start_time, 0)
    /\ Given(a.end_time) => SecondsOfDay(s1) <= ClockSeconds(a.end_time, 59)
    /\ a.should_forward_only => s1.stage1_should_forward = TRUE

\* The Stage 1 events stored for the requested date, and those in the frame
Stage1OfDate == {Stage1Data[r] : r \in {x \in stage1_table : x.day = args.date}}

EventsInResult == {rows[i].s1 : i \in RowAt}

\* The rows of the left join over the Stage 1 events filtered before the join
FilterThenJoin ==
    UNION { LET ms == PairedStage2(s1)
            IN  IF ms = {} THEN {LinkedRow(s1, NoStage2)}
                ELSE {LinkedRow(s1, s2) : s2 \in ms}
            : s1 \in {x \in Stage1OfDate : Satisfies(args, x)} }

\* C15 (as stated): the Stage 1 events of the result are exactly those of the
\* requested date that satisfy every active filter (AND); the rows are those of
\* filtering Stage 1 before the join; None, empty and 'All' restrict nothing.
C15_Original ==
    Answered =>
        /\ EventsInResult = {s1 \in Stage1OfDate : Satisfies(args, s1)}
        /\ {rows[i] : i \in RowAt} = FilterThenJoin

\* C15 (amended): every Stage 1 event of the result is of the requested date and
\* satisfies every active filter; when the query executes and at most  limit
\* rows qualify, the events of the result are exactly those and the rows are
\* those of filtering Stage 1 before the join.
C15_FiltersConjunctive ==
    /\ \A i \in RowAt : rows[i].s1 \in Stage1OfDate /\ Satisfies(args, rows[i].s1)
    /\ Answered =>
         LET qualifying == FilterThenJoin
         IN  Cardinality(qualifying) <= args.limit =>
                 /\ EventsInResult = {s1 \in Stage1OfDate : Satisfies(args, s1)}
                 /\ {rows[i] : i \in RowAt} = qualifying

\* Several filters at once keep one event of the date and leave another out.
C15_Witness ==
    /\ Answered
    /\ Cardinality(FilterThenJoin) <= args.limit
    /\ args.should_forward_only
    /\ Restricts(args.camera_id)
    /\ Restricts(args.tenant_id)
    /\ EventsInResult # {}
    /\ EventsInResult # Stage1OfDate

\* The wall-clock time of s1 lies within the bounds of the call a, a bound given
\* as HH:MM standing for HH:MM:00 at the start and HH:MM:59 at the end
InTimeRange(a, s1) ==
    /\ Given(a.start_time) => ClockSeconds(a.start_time, 0) <= SecondsOfDay(s1)
    /\ Given(a.end_time) => SecondsOfDay(s1) <= ClockSeconds(a.end_time, 59)

\* The call a has no filter but the time range
TimeRangeOnly(a) ==
    /\ ~Restricts(a.tenant_id)
    /\ ~Restricts(a.farm_id)
    /\ ~Restricts(a.camera_id)
    /\ ~a.should_forward_only

\* C16: with a start time s and an end time e, a Stage 1 event is kept exactly
\* when its wall-clock time t satisfies s <= t <= e, both bounds included, HH:MM
\* standing for HH:MM:00 at the start and HH:MM:59 at the end; s > e selects no
\* event.
C16_TimeRangeInclusive ==
    /\ \A i \in RowAt : InTimeRange(args, rows[i].s1)
    /\ (Answered /\ TimeRangeOnly(args) /\ Cardinality(FilterThenJoin) <= args.limit)
       => LET returned == EventsInResult
          IN  \A s1 \in Stage1OfDate : InTimeRange(args, s1) => s1 \in returned
    /\ ( /\ phase = "answered"
         /\ Given(args.start_time)
         /\ Given(args.end_time)
         /\ ClockSeconds(args.start_time, 0) > ClockSeconds(args.end_time, 59) )
       => rows = EmptyFrame

\* An event exactly at the start HH:MM:00 and one exactly at the end HH:MM:59 of
\* bounds given as HH:MM are both in the frame.
C16_Witness ==
    /\ Answered
    /\ Given(args.start_time) /\ Len(args.start_time) = 5
    /\ Given(args.end_time) /\ Len(args.end_time) = 5
    /\ \E i, j \in RowAt :
         /\ SecondsOfDay(rows[i].s1) = ClockSeconds(args.start_time, 0)
         /\ SecondsOfDay(rows[j].s1) = ClockSeconds(args.end_time, 59)
         /\ rows[j].s1.time[3] = 59

\* C17: the rows are in non-increasing order of Stage 1 timestamp and number at
\* most  limit ; when more than  limit  rows qualify, the rows returned are  limit
\* qualifying rows with the latest Stage 1 timestamps (ordered, then cut).
C17_OrderedThenLimited ==
    /\ \A i, j \in RowAt : i < j => Seconds(rows[i].s1) >= Seconds(rows[j].s1)
    /\ Len(rows) <= args.limit
    /\ Answered =>
         LET qualifying == FilterThenJoin
             returned   == {rows[i] : i \in RowAt}
         IN  /\ Len(rows) = (IF args.limit < Cardinality(qualifying) THEN args.limit
                             ELSE Cardinality(qualifying))
             /\ Cardinality(returned) = Len(rows)
             /\ returned \subseteq qualifying
             /\ \A r \in qualifying \ returned :
                  \A i \in RowAt : Seconds(r.s1) <= Seconds(rows[i].s1)

\* Two rows of different timestamps are returned, the later first, and an earlier
\* qualifying row is cut by the limit.
C17_Witness ==
    /\ Answered
    /\ args.limit = 2
    /\ Len(rows) = 2
    /\ Seconds(rows[1].s1) > Seconds(rows[2].s1)
    /\ \E r \in FilterThenJoin \ {rows[i] : i \in RowAt} :
         Seconds(r.s1) < Seconds(rows[2].s1)

\* The rows show that s1 has several matches: two rows carry s1 with different
\* Stage 2 events
Detectable(s1) ==
    \E i, j \in RowAt :
        /\ rows[i].s1 = s1
        /\ rows[j].s1 = s1
        /\ rows[i].s2.stage2_inference_id # rows[j].s2.stage2_inference_id

\* Every match of s1 has its row
AllMatchesSurfaced(s1) ==
    \A s2 \in PairedStage2(s1) : \E i \in RowAt : rows[i].s1 = s1 /\ rows[i].s2 = s2

\* C18 (as stated): whenever a Stage 1 event of the result matches more than one
\* Stage 2 event, the rows show it: one row per match, at least two rows with the
\* same Stage 1 event and different Stage 2 events, no match dropped.
C18_Original ==
    Answered =>
        \A s1 \in EventsInResult :
            Cardinality(PairedStage2(s1)) > 1
                => Detectable(s1) /\ AllMatchesSurfaced(s1)

\* C18 (amended): the same, when at most  limit  rows qualify; otherwise the limit
\* may cut the rows of the last events returned.
C18_MultiMatchDetectable ==
    (Answered /\ Cardinality(FilterThenJoin) <= args.limit) =>
        \A s1 \in EventsInResult :
            LET k == Cardinality(PairedStage2(s1))
            IN  k > 1 => /\ Detectable(s1)
                         /\ AllMatchesSurfaced(s1)
                         /\ Cardinality(RowsOf(s1)) = k

\* An event with two matches has its two rows in a frame the limit did not cut.
C18_Witness ==
    /\ Answered
    /\ Cardinality(FilterThenJoin) <= args.limit
    /\ \E s1 \in EventsInResult :
         /\ Cardinality(PairedStage2(s1)) = 2
         /\ Detectable(s1)
         /\ Cardinality(RowsOf(s1)) = 2

\* The entries of the list returned, after the sentinel
EntryAt == 2..Len(choices)

\* The Stage 1 rows stored for the date of the list call
Stage1OfListDate == {r \in stage1_table : r.day = list_call.date}

\* e is the (display_name, id) pair of an id that has data on the date
IsChoice(e) ==
    /\ Len(e) = 2
    /\ CASE list_call.op = "get_available_tenants" ->
              \E r \in Stage1OfListDate :
                  /\ r.farm_id \in DOMAIN farm_mapping
                  /\ farm_mapping[r.farm_id].tenant_id = e[2]
                  /\ farm_mapping[r.farm_id].tenant_name = e[1]
         [] list_call.op = "get_available_farms" ->
              \E r \in Stage1OfListDate :
                  /\ r.farm_id = e[2]
                  /\ e[1] = IF e[2] \in DOMAIN farm_mapping
                            THEN farm_mapping[e[2]].name ELSE e[2]
         [] list_call.op = "get_available_cameras" ->
              \E r \in Stage1OfListDate :
                  /\ r.camera_id = e[2]
                  /\ e[1] = IF e[2] \in DOMAIN camera_mapping
                            THEN camera_mapping[e[2]].name ELSE e[2]

\* C19: the list of get_available_tenants, get_available_farms and
\* get_available_cameras starts with ('All', 'All'), on success and on failure,
\* and the entries after it are (display_name, id) pairs in ascending order of
\* display name.
C19_ListsSentinelSorted ==
    phase = "listed" =>
        /\ Len(choices) >= 1
        /\ choices[1] = AllSentinel
        /\ \A i \in EntryAt : IsChoice(choices[i])
        /\ \A i, j \in EntryAt : i < j => StrLeq(choices[i][1], choices[j][1])

\* A list of three entries whose order by display name is not their order by id.
C19_Witness ==
    /\ phase = "listed"
    /\ Len(choices) = 4
    /\ \E i, j \in EntryAt :
         /\ i < j
         /\ choices[i][1] # choices[j][1]
         /\ ~StrLeq(choices[i][2], choices[j][2])

\* The factory calls of the trace, and the trace of a call the factory refused
FactoryAt == {i \in 1..Len(trace) : trace[i].ev = "factory"}

ConfigurationRefusal == <<Event("factory", 0, ConfigurationError, EmptyFrame)>>

\* C20: with no HTTP path, get_databricks_connection raises the configuration
\* error before any connection is opened or any query is run, and the executor
\* call that meets it executes the operation zero times, does not reconnect and
\* does not retry.
C20_MissingHttpPathFailsFast ==
    http_path = "" =>
        /\ \A i \in FactoryAt : trace[i].err = ConfigurationError /\ trace[i].h = 0
        /\ handles = 0
        /\ connection = 0
        /\ CountEv(trace, "exec") = 0
        /\ CountEv(trace, "reconnect") = 0
        /\ attempt = 0
        /\ Len(trace) <= 1
        /\ (pc = "FatalFailure" \/ (pc = "Idle" /\ calls > 0))
           => (trace = ConfigurationRefusal /\ last_error = ConfigurationError)

\* The call was refused by the factory and has raised.
C20_Witness ==
    /\ http_path = ""
    /\ pc = "FatalFailure"
    /\ trace = ConfigurationRefusal
    /\ last_error = ConfigurationError

FirstExecAt == CHOOSE i \in ExecAt : \A j \in ExecAt : i <= j

\* The except clause has dealt with the error of the first execution
FirstExecHandled == Len(trace) > FirstExecAt \/ pc \in {"FatalFailure", "Idle"}

\* What follows the first execution at position i: _reconnect, close() on the
\* handle that failed, the factory, the execution on the handle it returned.
ReconnectOrder(i) ==
    /\ Len(trace) > i
    /\ trace[i + 1].ev = "reconnect"
    /\ Len(trace) > i + 1
    /\ trace[i + 2].ev = "close" /\ trace[i + 2].h = trace[i].h
    /\ trace[i].h \in closed
    /\ connection # trace[i].h
    /\ trace[Len(trace)].ev = "close" => pc = "Reopening"
    /\ Len(trace) > i + 2 => trace[i + 3].ev = "factory"
    /\ Len(trace) > i + 3 =>
          /\ trace[i + 3].err = NoError
          /\ trace[i + 4].ev = "exec"
          /\ trace[i + 4].h = trace[i + 3].h
          /\ trace[i + 4].h # trace[i].h
          /\ trace[i + 4].h \notin closed

\* C23 (as stated): after a connection-class failure of the first execution the
\* executor closes the stale connection, constructs a fresh one and re-executes
\* on it, in this order; an error of close() does not prevent the reconnect and
\* the second execution never runs on the stale connection.
C23_Original ==
    (/\ ExecAt # {}
     /\ FirstExec.err # NoError
     /\ is_connection_error(FirstExec.err)
     /\ FirstExecHandled)
    => ReconnectOrder(FirstExecAt)

\* C23 (amended): the same, for a first execution made on the first attempt; when
\* the lazy creation of the connection had failed with a connection-class error,
\* the first execution is made on the second attempt and its failure is raised.
C23_ReconnectOrder ==
    /\ (/\ ExecAt # {}
        /\ FirstExec.err # NoError
        /\ is_connection_error(FirstExec.err)
        /\ FirstExecHandled)
       => IF \E j \in 1..FirstExecAt : trace[j].ev = "reconnect"
          THEN /\ pc \in {"FatalFailure", "Idle"}
               /\ trace[Len(trace)].ev = "exec"
               /\ Cardinality(ExecAt) = 1
          ELSE ReconnectOrder(FirstExecAt)
    /\ \A i, j \in ExecAt : i < j => trace[j].h # trace[i].h /\ trace[i].h \in closed

\* close() raised, and the operation was executed again on the fresh connection.
C23_Witness ==
    /\ Cardinality(ExecAt) = 2
    /\ is_connection_error(FirstExec.err)
    /\ \E i \in 1..Len(trace) : trace[i].ev = "close" /\ trace[i].err # NoError
    /\ LastExec.h # FirstExec.h
    /\ LastExec.h = connection

\* The state of the executor's state machine the call at hand is in. The except
\* clause belongs to RetryableFailure when it is about to reconnect and to
\* Executing when it is about to raise; _reconnect is Reconnecting throughout.
ExecutorState ==
    CASE pc = "Handling" ->
             IF last_error \in ClassedAsConnection /\ attempt < max_retries - 1
             THEN "RetryableFailure" ELSE "Executing"
      [] pc \in {"Reconnecting", "Reopening"} -> "Reconnecting"
      [] OTHER -> pc

\* The transitions of the state machine, and the return of the public operation
\* to its caller once the call has ended
ListedTransitions ==
    { <<"Idle", "Executing">>, <<"Executing", "Success">>,
      <<"Executing", "FatalFailure">>, <<"Executing", "RetryableFailure">>,
      <<"RetryableFailure", "Reconnecting">>, <<"Reconnecting", "Executing">> }

CallEnds == { <<"Success", "Idle">>, <<"FatalFailure", "Idle">> }

\* A call ends in Success with the value of its last execution, or in
\* FatalFailure with the error that was raised last.
TerminalStates ==
    /\ pc = "Success" => /\ ExecAt # {}
                         /\ Len(trace) \in ExecAt
                         /\ LastExec.err = NoError
                         /\ result = LastExec.val
    /\ pc = "FatalFailure" => /\ trace # << >>
                              /\ last_error # NoError
                              /\ trace[Len(trace)].err = last_error

\* C24 (as stated): a call of _execute_with_retry takes only the transitions
\* Idle -> Executing, Executing -> Success, Executing -> FatalFailure and
\* Executing -> RetryableFailure -> Reconnecting -> Executing.
C24_Original ==
    [][ExecutorState' # ExecutorState
         => <<ExecutorState, ExecutorState'>> \in ListedTransitions \cup CallEnds]_varsCall

\* C24 (amended): every call of _execute_with_retry terminates in exactly one of
\* Success (a result is returned) and FatalFailure (an error is raised), taking
\* only the listed transitions and Reconnecting -> FatalFailure, which is taken
\* when the construction of the fresh connection fails.
C24_Terminates ==
    /\ [][ExecutorState' # ExecutorState
           => <<ExecutorState, ExecutorState'>> \in
                 ListedTransitions \cup CallEnds
                     \cup { <<"Reconnecting", "FatalFailure">> }]_varsCall
    /\ []TerminalStates
    /\ (pc = "Executing") ~> (pc \in {"Success", "FatalFailure"})

\* A call has ended in FatalFailure out of _reconnect.
C24_Witness ==
    /\ pc = "FatalFailure"
    /\ trace # << >>
    /\ trace[Len(trace)].ev = "factory"
    /\ \E i \in 1..Len(trace) : trace[i].ev = "reconnect"

\* The factory raised inside _reconnect: the last event of the call is the failed
\* factory call that follows a reconnect.
ReconnectFailed ==
    /\ trace # << >>
    /\ trace[Len(trace)].ev = "factory"
    /\ trace[Len(trace)].err # NoError
    /\ \E i \in 1..Len(trace) : trace[i].ev = "reconnect"

\* C26: when the construction of the fresh connection fails during _reconnect,
\* the call ends with that failure without a second execution and the service
\* holds no handle at all; a call that starts with no handle calls the factory
\* before it executes, and executes on the handle the factory returned.
C26_FailedReconnectLeavesNoHandle ==
    /\ [](ReconnectFailed =>
            /\ pc \in {"FatalFailure", "Idle"}
            /\ last_error = trace[Len(trace)].err
            /\ Cardinality(ExecAt) <= 1
            /\ \A i \in ExecAt : \E j \in 1..Len(trace) : i < j /\ trace[j].ev = "reconnect"
            /\ connection = 0)
    /\ [](connection = 0 => closed = 1..handles)
    /\ [][connection = 0 =>
            /\ Len(trace') > Len(trace) => trace'[Len(trace')].ev # "exec"
            /\ connection' # 0 => /\ connection' = handles + 1
                                  /\ connection' \notin closed'
                                  /\ trace'[Len(trace')].ev = "factory"]_varsCall

\* The first call lost its connection in a failed reconnect; the second call has
\* made a new connection and executed on it.
C26_Witness ==
    /\ calls = 2
    /\ closed = {1}
    /\ handles = 2
    /\ connection = 2
    /\ Len(trace) = 2
    /\ trace[1].ev = "factory" /\ trace[1].h = 2
    /\ trace[2].ev = "exec" /\ trace[2].h = 2

(***************************************************************************)
(* Properties of the mapping service (specification SpecMap)               *)
(***************************************************************************)

\* Between two reload() calls load() has read the warehouse at most once, and a
\* getter hands out the mapping the service holds.
LoadedOncePerReload ==
    /\ load_runs <= 1
    /\ mapping_out.op = "get_mapping"
       => mapping_out.value = MappingOf(mapping_out.arg, camera_mapping,
                                        farm_mapping, tenant_mapping)

\* What the mapping service holds
varsCached == <<loaded, reloads, load_runs, load_failed, camera_mapping,
                farm_mapping, tenant_mapping>>

LastN(l, n) == IF n >= Len(l) THEN l ELSE SubSeq(l, Len(l) - n + 1, Len(l))

AllButLastN(l, n) == IF n >= Len(l) THEN << >> ELSE SubSeq(l, 1, Len(l) - n)

\* A list holds at most bound entries, the most recently tracked in insertion
\* order, and what was evicted are the entries tracked before them.
BoundedRecent(files, bound, log, out) ==
    /\ Len(files) <= bound
    /\ files = LastN(log, bound)
    /\ out = AllButLastN(log, bound)

\* C21: after any sequence of track_video (track_gif) calls on a TempFileManager
\* of any bound, the tracked list holds at most that many entries, the most
\* recently tracked in insertion order, and the files deleted by eviction are
\* exactly the oldest tracked entries.
C21_BoundedInsertionOrder ==
    /\ BoundedRecent(temp_video_files, max_videos, tracked_log.video, evicted.video)
    /\ BoundedRecent(temp_gif_files, max_gifs, tracked_log.gif, evicted.gif)
    /\ disk \cap (Range(evicted.video) \cup Range(evicted.gif))
         \subseteq Range(temp_video_files) \cup Range(temp_gif_files)

\* The same for the bounds of one and more, where it holds.
BoundedWhereItHolds ==
    /\ max_videos >= 1
       => BoundedRecent(temp_video_files, max_videos, tracked_log.video, evicted.video)
    /\ max_gifs >= 1
       => BoundedRecent(temp_gif_files, max_gifs, tracked_log.gif, evicted.gif)

(***************************************************************************)
(* Properties of the media service (specification SpecMedia)               *)
(***************************************************************************)

\* The last media call was download_video_to_temp
DownloadReturned == media_out.op = "download_video_to_temp"

\* C29: when download_video_to_temp returns, every temporary file it created
\* is either deleted or tracked by the TempFileManager, on every path
\* (transcode success, transcode failure, exception).
C29_NoUntrackedTempFile ==
    DownloadReturned
    => \A f \in media_out.created : f \notin disk \/ f \in Range(temp_video_files)

(***************************************************************************)
(* Properties of the handlers (specification SpecUi)                       *)
(***************************************************************************)

\* get_row_details has just answered from row_cache
CacheHit == ui_out.op = "get_row_details" /\ ui_out.from_cache

\* C27: get_row_details never returns a cached triple computed from a result
\* set older than the one now in app_state: a cache hit for row i describes
\* row i of the current query_results.
C27_CacheHitIsCurrent ==
    CacheHit
    => /\ ui_out.row < Len(query_results)
       /\ ui_out.details = <<generation, ui_out.row>>

\* A row of a second result set was answered from the cache.
C27_Witness ==
    /\ CacheHit
    /\ generation = 2
    /\ ui_out.details = <<2, ui_out.row>>

\* The path is None, or a file on disk that the list still tracks
StillTracked(path, files) == path = NoPath \/ (path \in Range(files) /\ path \in disk)

\* C28: whenever get_row_details answers from row_cache, the GIF and the video
\* path it returns are still tracked by the TempFileManager, neither evicted
\* nor deleted since they were cached.
C28_CachedPathsStillTracked ==
    CacheHit
    => /\ StillTracked(ui_out.gif, temp_gif_files)
       /\ StillTracked(ui_out.video, temp_video_files)

\* A cache hit with a GIF and a video, after the manager has evicted a video.
C28_Witness ==
    /\ CacheHit
    /\ ui_out.gif # NoPath
    /\ ui_out.video # NoPath
    /\ evicted.video # << >>
    /\ StillTracked(ui_out.gif, temp_gif_files)
    /\ StillTracked(ui_out.video, temp_video_files)

(***************************************************************************)
(* Properties of the handlers side by side (specification SpecHandlers)    *)
(***************************************************************************)

Executing == {h \in Handlers : handler_pc[h] = "Executing"}

\* C25: at most one query is in flight on the shared connection at any time:
\* in no interleaving of load_filters, update_farms_on_tenant_change,
\* update_cameras_on_farm_change and run_query does one call's _reconnect
\* close or replace the connection while another call is executing on it.
C25_OneQueryInFlight ==
    /\ Cardinality(Executing) <= 1
    /\ \A h \in Executing :
          /\ handler_handle[h] \notin closed_handles
          /\ handler_handle[h] = shared_connection

(***************************************************************************)
(* Properties of the key extraction (specification SpecKeys)               *)
(***************************************************************************)

\* The block id and the timestamp a well-formed key text is made of
KeyOf(core) == [block_id |-> SubSeq(core, 1, 11), timestamp_key |-> SubSeq(core, 13, 31)]

\* C13: for every path holding a well-formed block id, _ and a timestamp, the key
\* extraction of either side returns exactly that block id and that timestamp,
\* whatever precedes or follows them (a directory prefix, no prefix, any suffix).
C13_KeyExtractionAnyPrefixSuffix ==
    key_input.form = "path" =>
        /\ stage1_key # NoKey => stage1_key = KeyOf(key_input.core)
        /\ stage2_key # NoKey => stage2_key = KeyOf(key_input.core)

\* A key is undefined when a component is missing
Undefined(k) == ~HasValue(k.block_id) \/ ~HasValue(k.timestamp_key)

\* C14: for every base name B and every directory prefix, the key Stage 1 derives
\* from dir/B.jpg equals the key Stage 2 derives from B.mp4: the same block id and
\* timestamp, or undefined on both sides.
C14_KeyDerivationAgrees ==
    (key_input.form = "pair" /\ stage1_key # NoKey /\ stage2_key # NoKey) =>
        \/ stage1_key = stage2_key
        \/ Undefined(stage1_key) /\ Undefined(stage2_key)

\* A text holds no /NNN_NNNNNNN_ and no _YYYY-MM-DDTHH:MM:SS of its own
Plain(text) ==
    /\ stage1_blk_file(text \o "/") = ""
    /\ frame_timestamp_key(text \o "/") = ""

\* What holds of the extraction: Stage 1 finds the key behind a plain prefix that
\* ends in /, Stage 2 finds it at the start of the name only, and the two sides
\* agree behind a plain directory.
KeyExtractionWhereItHolds ==
    /\ ( /\ key_input.form = "path"
         /\ stage1_key # NoKey
         /\ Plain(key_input.prefix)
         /\ key_input.prefix # ""
         /\ Char(key_input.prefix, Len(key_input.prefix)) = "/" )
       => stage1_key = KeyOf(key_input.core)
    /\ (key_input.form = "path" /\ stage2_key # NoKey /\ key_input.prefix = "")
       => stage2_key = KeyOf(key_input.core)
    /\ ( /\ key_input.form = "pair"
         /\ stage1_key # NoKey
         /\ stage2_key # NoKey
         /\ Plain(key_input.prefix) )
       => stage1_key = stage2_key

====
